---- MODULE Spec2Model ----
(***************************************************************************)
(* Model of rtk-for-opencode: the output-reduction pipeline run by the     *)
(* plugin's tool.execute.after handler and the filters it calls.           *)
(*                                                                         *)
(* A text is a sequence of UTF-16 code units, as a JavaScript string is.   *)
(* A code unit is written as a one-character string; a code unit that is   *)
(* not printable ASCII is written by its name ("ESC", "BEL", "U+274C").    *)
(* An astral character such as U+1F50D is two code units (a surrogate      *)
(* pair), so that .length is what JavaScript computes.                     *)
(***************************************************************************)
EXTENDS Integers, Sequences, FiniteSets, TLC

VARIABLES
  config,          \* the merged RtkConfig of the plugin instance (plugin.ts:25)
  input,           \* the `input` argument of the running hook invocation
  output,          \* output.output, the text the host reads back
  pc,              \* position of the running invocation in the handler
  original,        \* const original (plugin.ts:135)
  result,          \* let result (plugin.ts:136)
  technique,       \* let technique (plugin.ts:137): the label chain, <<>> for null
  error,           \* what the try block threw (plugin.ts:252), "none" if nothing
  sessionMetrics,  \* const sessionMetrics: MetricRecord[] (plugin.ts:26)
  appLog,          \* the bodies passed to client.app.log, in call order
  metricsFile,     \* the records appended to the metrics file, in order
  fnArgs,          \* the call under check: a function's arguments, or a hook's name and argument
  fnRet,           \* its return value
  idleTurnCounts,  \* const idleTurnCounts: Map<string, number> (plugin.ts:27)
  toasts,          \* the bodies passed to client.tui.showToast, in call order
  idleEvents,      \* how many session.idle events the host delivered, per session id
  thrown,          \* the error the last hook call rejected with, "none" if it resolved
  tasks            \* the hook calls the host has made at once: input and position of each

vars == <<config, input, output, pc, original, result, technique, error,
          sessionMetrics, appLog, metricsFile, fnArgs, fnRet,
          idleTurnCounts, toasts, idleEvents, thrown, tasks>>

(***************************************************************************)
(* String primitives of JavaScript used by the filters.                    *)
(***************************************************************************)
Digit == {"0", "1", "2", "3", "4", "5", "6", "7", "8", "9"}

Lowercase == {"a", "b", "c", "d", "e", "f", "g", "h", "i", "j", "k", "l", "m",
              "n", "o", "p", "q", "r", "s", "t", "u", "v", "w", "x", "y", "z"}

Uppercase == {"A", "B", "C", "D", "E", "F", "G", "H", "I", "J", "K", "L", "M",
              "N", "O", "P", "Q", "R", "S", "T", "U", "V", "W", "X", "Y", "Z"}

\* \s of a JavaScript regular expression, and the set String.prototype.trim removes
Whitespace == {" ", "\t", "\n", "\r", "\f", "U+000B", "U+00A0", "U+FEFF", "U+2028", "U+2029"}

\* \w of a JavaScript regular expression
WordChar == Digit \cup Lowercase \cup Uppercase \cup {"_"}

Min(a, b) == IF a <= b THEN a ELSE b

Max(a, b) == IF a >= b THEN a ELSE b

\* the least element of a non-empty set of integers
Least(S) == CHOOSE j \in S : \A k \in S : j <= k

\* `const name = value` followed by the code In that uses it: the value is computed once
Bind(value, In(_)) == In(value)

\* s.slice(from0, to0) with 0-based, end-exclusive, non-negative indices
Slice(s, from0, to0) == SubSeq(s, from0 + 1, Min(to0, Len(s)))

\* s.slice(from0)
SliceFrom(s, from0) == SubSeq(s, from0 + 1, Len(s))

StartsWith(s, p) == Len(s) >= Len(p) /\ SubSeq(s, 1, Len(p)) = p

EndsWith(s, p) == Len(s) >= Len(p) /\ SubSeq(s, Len(s) - Len(p) + 1, Len(s)) = p

\* s.includes(p)
Includes(s, p) == \E i \in 1..(Len(s) - Len(p) + 1) : SubSeq(s, i, i + Len(p) - 1) = p

\* s.indexOf(p), 0-based, -1 when absent
IndexOf(s, p) ==
  IF Includes(s, p)
  THEN (CHOOSE i \in 1..(Len(s) - Len(p) + 1) :
          /\ SubSeq(s, i, i + Len(p) - 1) = p
          /\ \A j \in 1..(i - 1) : SubSeq(s, j, j + Len(p) - 1) # p) - 1
  ELSE -1

\* s.lastIndexOf(c) for a single code unit c, 0-based, -1 when absent
LastIndexOf(s, c) ==
  IF \E i \in 1..Len(s) : s[i] = c
  THEN (CHOOSE i \in 1..Len(s) : s[i] = c /\ \A j \in (i + 1)..Len(s) : s[j] # c) - 1
  ELSE -1

LowerOf(c) ==
  CASE c = "A" -> "a" [] c = "B" -> "b" [] c = "C" -> "c" [] c = "D" -> "d"
    [] c = "E" -> "e" [] c = "F" -> "f" [] c = "G" -> "g" [] c = "H" -> "h"
    [] c = "I" -> "i" [] c = "J" -> "j" [] c = "K" -> "k" [] c = "L" -> "l"
    [] c = "M" -> "m" [] c = "N" -> "n" [] c = "O" -> "o" [] c = "P" -> "p"
    [] c = "Q" -> "q" [] c = "R" -> "r" [] c = "S" -> "s" [] c = "T" -> "t"
    [] c = "U" -> "u" [] c = "V" -> "v" [] c = "W" -> "w" [] c = "X" -> "x"
    [] c = "Y" -> "y" [] c = "Z" -> "z" [] OTHER -> c

\* s.toLowerCase()
ToLowerCase(s) == [i \in 1..Len(s) |-> LowerOf(s[i])]

\* s.trimEnd(), s.trimStart(), s.trim()
RECURSIVE TrimEnd(_)
TrimEnd(s) ==
  IF s # <<>> /\ s[Len(s)] \in Whitespace THEN TrimEnd(SubSeq(s, 1, Len(s) - 1)) ELSE s

RECURSIVE TrimStart(_)
TrimStart(s) == IF s # <<>> /\ s[1] \in Whitespace THEN TrimStart(Tail(s)) ELSE s

Trim(s) == TrimEnd(TrimStart(s))

\* s.split(sep) for a single code unit sep: always at least one piece
Split(s, sep) ==
  Bind(<<0>> \o SelectSeq([i \in 1..Len(s) |-> i], LAMBDA i : s[i] = sep) \o <<Len(s) + 1>>,
       LAMBDA cuts : [k \in 1..(Len(cuts) - 1) |-> SubSeq(s, cuts[k] + 1, cuts[k + 1] - 1)])

\* parts.join(sep) for a text sep
RECURSIVE Join(_, _)
Join(parts, sep) ==
  IF parts = <<>> THEN <<>>
  ELSE IF Len(parts) = 1 THEN parts[1]
  ELSE parts[1] \o sep \o Join(Tail(parts), sep)

DigitOf(d) == <<"0", "1", "2", "3", "4", "5", "6", "7", "8", "9">>[d + 1]

\* String(n) for an integer n, as a template literal `${n}` renders it
RECURSIVE NumToStr(_)
NumToStr(n) ==
  IF n < 0 THEN <<"-">> \o NumToStr(0 - n)
  ELSE IF n < 10 THEN <<DigitOf(n)>>
  ELSE NumToStr(n \div 10) \o <<DigitOf(n % 10)>>

DigitValue(c) == CHOOSE d \in 0..9 : DigitOf(d) = c

\* parseInt(s, 10) for a text s of decimal digits (\d+)
RECURSIVE ParseInt(_)
ParseInt(s) ==
  IF s = <<>> THEN 0 ELSE 10 * ParseInt(SubSeq(s, 1, Len(s) - 1)) + DigitValue(s[Len(s)])

(***************************************************************************)
(* Hard truncation (src/src/techniques/truncate.ts).                      *)
(***************************************************************************)
\* a truncate that counts the omitted characters from the budget, not from the cut
truncateCountsFromBudget(text, maxChars) ==
  IF Len(text) <= maxChars THEN text
  ELSE IF maxChars < 3 THEN <<".", ".", ".">>
  ELSE LET truncated == Slice(text, 0, maxChars - 3)
           omitted == Len(text) - maxChars
       IN  truncated \o <<"\n", ".", ".", ".", " ", "[", "t", "r", "u", "n", "c", "a", "t", "e", "d", ":", " ">> \o NumToStr(omitted) \o <<" ", "c", "h", "a", "r", "s", " ", "o", "m", "i", "t", "t", "e", "d", "]">>

\* truncate(text, maxChars) (truncate.ts:1-13)
truncate(text, maxChars) ==
  IF Len(text) <= maxChars THEN text
  ELSE IF maxChars < 3 THEN <<".", ".", ".">>
  ELSE LET truncated == Slice(text, 0, maxChars - 3)
           omitted == Len(text) - (maxChars - 3)
       IN  truncated \o <<"\n", ".", ".", ".", " ", "[", "t", "r", "u", "n", "c", "a", "t", "e", "d", ":", " ">> \o NumToStr(omitted) \o <<" ", "c", "h", "a", "r", "s", " ", "o", "m", "i", "t", "t", "e", "d", "]">>

(***************************************************************************)
(* ANSI stripping (stripAnsi, stripAnsiFast).                              *)
(***************************************************************************)
\* number of consecutive code units of s, from 1-based position i on, that are in set
SpanIn(s, i, set) ==
  Least({j \in i..Len(s) : s[j] \notin set} \cup {Max(Len(s) + 1, i)}) - i

\* number of consecutive code units of s, from 1-based position i on, that are not in set
SpanNotIn(s, i, set) ==
  Least({j \in i..Len(s) : s[j] \in set} \cup {Max(Len(s) + 1, i)}) - i

\* length of the terminator (?:\x07|\x1b\\) at position j, 0 when there is none
OscEndLen(s, j) ==
  IF j <= Len(s) /\ s[j] = "BEL" THEN 1
  ELSE IF j + 1 <= Len(s) /\ s[j] = "ESC" /\ s[j + 1] = "\\" THEN 2
  ELSE 0

\* length of the match of one of stripAnsi's three expressions at position i, 0 for no match:
\*   "csi"  /\x1b\[[0-9;]*[a-zA-Z]/
\*   "osc"  /\x1b\][0-9;]*(?:\x07|\x1b\\)/
\*   "osc2" /\x1b\][^\x07\x1b]*(?:\x07|\x1b\\)/
AnsiMatchLen(s, i, kind) ==
  IF ~(i + 1 <= Len(s) /\ s[i] = "ESC") THEN 0
  ELSE IF kind = "csi" THEN
    IF s[i + 1] # "[" THEN 0
    ELSE Bind(SpanIn(s, i + 2, Digit \cup {";"}),
              LAMBDA k : IF i + 2 + k <= Len(s) /\ s[i + 2 + k] \in (Lowercase \cup Uppercase)
                         THEN k + 3 ELSE 0)
  ELSE IF s[i + 1] # "]" THEN 0
  ELSE Bind(IF kind = "osc" THEN SpanIn(s, i + 2, Digit \cup {";"})
            ELSE SpanNotIn(s, i + 2, {"BEL", "ESC"}),
            LAMBDA k : Bind(OscEndLen(s, i + 2 + k),
                            LAMBDA e : IF e > 0 THEN 2 + k + e ELSE 0))

\* s.replace(/.../g, '') for one of the three expressions: leftmost matches, left to right
RECURSIVE RemoveAnsi(_, _, _)
RemoveAnsi(s, i, kind) ==
  Bind(Least({j \in i..Len(s) : AnsiMatchLen(s, j, kind) > 0} \cup {Len(s) + 1}),
       LAMBDA first :
         IF first > Len(s) THEN SubSeq(s, i, Len(s))
         ELSE SubSeq(s, i, first - 1)
                \o RemoveAnsi(s, first + AnsiMatchLen(s, first, kind), kind))

stripAnsi(text) ==
  RemoveAnsi(RemoveAnsi(RemoveAnsi(text, 1, "csi"), 1, "osc"), 1, "osc2")

stripAnsiFast(text) ==
  IF ~(\E i \in 1..Len(text) : text[i] = "ESC") THEN text ELSE stripAnsi(text)

(***************************************************************************)
(* Build output filtering (src/src/techniques/build.ts).                   *)
(***************************************************************************)
\* an absent (null) filter result, and a present one
Null == [isNull |-> TRUE, text |-> <<>>]

Some(t) == [isNull |-> FALSE, text |-> t]

\* /^\s*word\s+/.test(line)
MatchesProgress(line, word) ==
  LET k == SpanIn(line, 1, Whitespace)
  IN  /\ StartsWith(SliceFrom(line, k), word)
      /\ k + Len(word) + 1 <= Len(line)
      /\ line[k + Len(word) + 1] \in Whitespace

BUILD_COMMANDS ==
  { <<"c", "a", "r", "g", "o", " ", "b", "u", "i", "l", "d">>, <<"c", "a", "r", "g", "o", " ", "c", "h", "e", "c", "k">>, <<"b", "u", "n", " ", "b", "u", "i", "l", "d">>, <<"n", "p", "m", " ", "r", "u", "n", " ", "b", "u", "i", "l", "d">>, <<"y", "a", "r", "n", " ", "b", "u", "i", "l", "d">>,
    <<"p", "n", "p", "m", " ", "b", "u", "i", "l", "d">>, <<"t", "s", "c">>, <<"m", "a", "k", "e">>, <<"c", "m", "a", "k", "e">>, <<"g", "r", "a", "d", "l", "e">>, <<"m", "v", "n">>, <<"g", "o", " ", "b", "u", "i", "l", "d">>,
    <<"g", "o", " ", "i", "n", "s", "t", "a", "l", "l">>, <<"p", "y", "t", "h", "o", "n", " ", "s", "e", "t", "u", "p", ".", "p", "y", " ", "b", "u", "i", "l", "d">>, <<"p", "i", "p", " ", "i", "n", "s", "t", "a", "l", "l">> }

SKIP_PATTERNS ==
  { <<"C", "o", "m", "p", "i", "l", "i", "n", "g">>, <<"C", "h", "e", "c", "k", "i", "n", "g">>, <<"D", "o", "w", "n", "l", "o", "a", "d", "i", "n", "g">>, <<"D", "o", "w", "n", "l", "o", "a", "d", "e", "d">>, <<"F", "e", "t", "c", "h", "i", "n", "g">>, <<"F", "e", "t", "c", "h", "e", "d">>,
    <<"U", "p", "d", "a", "t", "i", "n", "g">>, <<"U", "p", "d", "a", "t", "e", "d">>, <<"B", "u", "i", "l", "d", "i", "n", "g">>, <<"G", "e", "n", "e", "r", "a", "t", "e", "d">>, <<"C", "r", "e", "a", "t", "i", "n", "g">>, <<"R", "u", "n", "n", "i", "n", "g">> }

isSkipLine(line) == \E w \in SKIP_PATTERNS : MatchesProgress(line, w)

isErrorStart(line) ==
  \/ StartsWith(line, <<"e", "r", "r", "o", "r", "[">>)
  \/ StartsWith(line, <<"e", "r", "r", "o", "r", ":">>)
  \/ StartsWith(line, <<"[", "E", "R", "R", "O", "R", "]">>)
  \/ StartsWith(line, <<"F", "A", "I", "L">>)

isWarning(line) ==
  \/ StartsWith(line, <<"w", "a", "r", "n", "i", "n", "g", ":">>)
  \/ StartsWith(line, <<"[", "W", "A", "R", "N", "I", "N", "G", "]">>)
  \/ StartsWith(line, <<"w", "a", "r", "n", ":">>)

isBuildCommand(command) ==
  LET cmdLower == ToLowerCase(command)
  IN  \E bc \in BUILD_COMMANDS : Includes(cmdLower, ToLowerCase(bc))

\* a line loop that counts every noise line as a compiled unit
BuildLineCountsNoise(st, line) ==
  IF isSkipLine(line) THEN [st EXCEPT !.compiled = @ + 1] ELSE st

\* one iteration of the line loop of filterBuildOutput (build.ts:85-136)
BuildLine(st, line) ==
  IF \E w \in {<<"C", "o", "m", "p", "i", "l", "i", "n", "g">>, <<"C", "h", "e", "c", "k", "i", "n", "g">>, <<"B", "u", "i", "l", "d", "i", "n", "g">>} : MatchesProgress(line, w)
    THEN [st EXCEPT !.compiled = @ + 1]
  ELSE IF isSkipLine(line) THEN st
  ELSE IF isErrorStart(line)
    THEN [st EXCEPT !.errors = IF st.inErrorBlock /\ Len(st.currentError) > 0
                                 THEN Append(@, st.currentError) ELSE @,
                    !.inErrorBlock = TRUE,
                    !.currentError = <<line>>,
                    !.blankCount = 0]
  ELSE IF isWarning(line) THEN [st EXCEPT !.warnings = Append(@, line)]
  ELSE IF st.inErrorBlock THEN
    IF Trim(line) = <<>> THEN
      IF st.blankCount + 1 >= 2 /\ Len(st.currentError) > 3
        THEN [st EXCEPT !.blankCount = @ + 1,
                        !.errors = Append(@, st.currentError),
                        !.inErrorBlock = FALSE,
                        !.currentError = <<>>]
        ELSE [st EXCEPT !.blankCount = @ + 1, !.currentError = Append(@, line)]
    ELSE IF (line # <<>> /\ line[1] \in Whitespace) \/ StartsWith(line, <<"-", "-", ">">>)
      THEN [st EXCEPT !.currentError = Append(@, line), !.blankCount = 0]
    ELSE [st EXCEPT !.errors = Append(@, st.currentError),
                    !.inErrorBlock = FALSE,
                    !.currentError = <<>>]
  ELSE st

\* (st # st is never true: it has the state of an iteration evaluated before the next
\* iteration starts, as the loop does, instead of when the loop ends)
RECURSIVE BuildScan(_, _, _)
BuildScan(lines, i, st) ==
  IF i > Len(lines) \/ st # st THEN st ELSE BuildScan(lines, i + 1, BuildLine(st, lines[i]))

\* the lines printed for the first 5 error blocks (build.ts:152-157)
RECURSIVE BuildErrorLines(_)
BuildErrorLines(errors) ==
  IF errors = <<>> THEN <<>>
  ELSE SubSeq(errors[1], 1, Min(10, Len(errors[1])))
         \o (IF Len(errors[1]) > 10 THEN <<<<" ", " ", ".", ".", ".">>>> ELSE <<>>)
         \o BuildErrorLines(Tail(errors))

\* the summary built after the line loop (build.ts:143-167)
BuildReport(compiled, errors, warnings) ==
  IF Len(errors) = 0 /\ Len(warnings) = 0
  THEN Some(<<"U+2713", " ", "B", "u", "i", "l", "d", " ", "s", "u", "c", "c", "e", "s", "s", "f", "u", "l", " ", "(">> \o NumToStr(compiled) \o <<" ", "u", "n", "i", "t", "s", " ", "c", "o", "m", "p", "i", "l", "e", "d", ")">>)
  ELSE Some(Join(
         (IF Len(errors) > 0
          THEN <<<<"U+274C", " ">> \o NumToStr(Len(errors)) \o <<" ", "e", "r", "r", "o", "r", "(", "s", ")", ":">>>>
                 \o BuildErrorLines(SubSeq(errors, 1, Min(5, Len(errors))))
                 \o (IF Len(errors) > 5
                     THEN <<<<".", ".", ".", " ", "a", "n", "d", " ">> \o NumToStr(Len(errors) - 5) \o <<" ", "m", "o", "r", "e", " ", "e", "r", "r", "o", "r", "s">>>>
                     ELSE <<>>)
          ELSE <<>>)
         \o (IF Len(warnings) > 0
             THEN <<<<"\n", "U+26A0", "U+FE0F", " ", " ">> \o NumToStr(Len(warnings)) \o <<" ", "w", "a", "r", "n", "i", "n", "g", "(", "s", ")">>>>
             ELSE <<>>),
         <<"\n">>))

\* the error blocks when the block open at the end of the input is left out
BuildErrorsUnflushed(scanned) == scanned.errors

\* the error blocks after the loop: the block still open is pushed (build.ts:138-141)
BuildErrors(scanned) ==
  IF scanned.inErrorBlock /\ Len(scanned.currentError) > 0
  THEN Append(scanned.errors, scanned.currentError)
  ELSE scanned.errors

\* the line loop of filterBuildOutput over a text
BuildScanText(output_) ==
  BuildScan(Split(output_, "\n"), 1,
            [compiled |-> 0, errors |-> <<>>, warnings |-> <<>>,
             inErrorBlock |-> FALSE, currentError |-> <<>>, blankCount |-> 0])

filterBuildOutput(output_, command) ==
  IF ~isBuildCommand(command) THEN Null
  ELSE Bind(BuildScanText(output_),
            LAMBDA scanned :
              BuildReport(scanned.compiled, BuildErrors(scanned), scanned.warnings))

(***************************************************************************)
(* Regular expressions. An expression is a sequence of items: a literal, a *)
(* greedy or lazy repetition of a character class, an alternation of       *)
(* literals, or the end anchor. MatchItems is the backtracking match of    *)
(* JavaScript: a repetition first tries its longest (greedy) or shortest   *)
(* (lazy) extent and gives way only when the rest of the expression fails. *)
(***************************************************************************)
Lit(v) ==
  [kind |-> "lit", alts |-> <<v>>, set |-> {}, min |-> 0, max |-> 0, ci |-> FALSE, lazy |-> FALSE, neg |-> FALSE]

\* a literal under the i flag
LitCI(v) ==
  [kind |-> "lit", alts |-> <<v>>, set |-> {}, min |-> 0, max |-> 0, ci |-> TRUE, lazy |-> FALSE, neg |-> FALSE]

\* (v1|v2|...)
Alt(vs) ==
  [kind |-> "lit", alts |-> vs, set |-> {}, min |-> 0, max |-> 0, ci |-> FALSE, lazy |-> FALSE, neg |-> FALSE]

\* [set]{min,}
Rep(set, min) ==
  [kind |-> "rep", alts |-> <<>>, set |-> set, min |-> min, max |-> -1, ci |-> FALSE, lazy |-> FALSE, neg |-> FALSE]

\* [set]{min,}?
RepLazy(set, min) ==
  [kind |-> "rep", alts |-> <<>>, set |-> set, min |-> min, max |-> -1, ci |-> FALSE, lazy |-> TRUE, neg |-> FALSE]

\* .{min,} and .{min,}?
Dots(min) ==
  [kind |-> "rep", alts |-> <<>>, set |-> {"\n", "\r", "U+2028", "U+2029"}, min |-> min,
   max |-> -1, ci |-> FALSE, lazy |-> FALSE, neg |-> TRUE]

DotsLazy(min) ==
  [kind |-> "rep", alts |-> <<>>, set |-> {"\n", "\r", "U+2028", "U+2029"}, min |-> min,
   max |-> -1, ci |-> FALSE, lazy |-> TRUE, neg |-> TRUE]

\* [set]
One(set) ==
  [kind |-> "rep", alts |-> <<>>, set |-> set, min |-> 1, max |-> 1, ci |-> FALSE, lazy |-> FALSE, neg |-> FALSE]

\* [set]?
Opt(set) ==
  [kind |-> "rep", alts |-> <<>>, set |-> set, min |-> 0, max |-> 1, ci |-> FALSE, lazy |-> FALSE, neg |-> FALSE]

\* $
End ==
  [kind |-> "end", alts |-> <<>>, set |-> {}, min |-> 0, max |-> 0, ci |-> FALSE, lazy |-> FALSE, neg |-> FALSE]

NoMatch == [ok |-> FALSE, start |-> 0, ends |-> <<>>]

\* the literal v stands at 1-based position p of s (ci: under the i flag)
LitAt(s, p, v, ci) ==
  IF ci THEN ToLowerCase(SubSeq(s, p, Min(p + Len(v) - 1, Len(s)))) = ToLowerCase(v)
  ELSE SubSeq(s, p, Min(p + Len(v) - 1, Len(s))) = v

\* the ways item `it` can match at 1-based position p: the position after it, and the
\* order in which a backtracking matcher tries it (first alternative first; longest
\* extent first, shortest first when lazy)
Ways(s, it, p) ==
  IF it.kind = "lit"
    THEN {[rank |-> a, next |-> p + Len(it.alts[a])] :
            a \in {x \in 1..Len(it.alts) : LitAt(s, p, it.alts[x], it.ci)}}
  ELSE IF it.kind = "end"
    THEN IF p = Len(s) + 1 THEN {[rank |-> 0, next |-> p]} ELSE {}
  ELSE {[rank |-> IF it.lazy THEN n ELSE 0 - n, next |-> p + n] :
          n \in {x \in it.min..(IF it.neg THEN SpanNotIn(s, p, it.set) ELSE SpanIn(s, p, it.set)) :
                   it.max < 0 \/ x <= it.max}}

\* the way a backtracking matcher tries first
BestWay(ways) == CHOOSE w \in ways : \A u \in ways : w.rank <= u.rank

\* reach[k]: the positions at which item k can start after items 1..k-1 matched from i
RECURSIVE MatchReach(_, _, _)
MatchReach(s, items, reach) ==
  IF Len(reach) > Len(items) \/ reach[Len(reach)] = {} THEN reach
  ELSE MatchReach(s, items,
         Append(reach, UNION {{w.next : w \in Ways(s, items[Len(reach)], p)} : p \in reach[Len(reach)]}))

\* live, for items k..n: the positions of reach from which the rest of the items match
RECURSIVE MatchLive(_, _, _, _)
MatchLive(s, items, reach, live) ==
  IF live = <<>>
    THEN MatchLive(s, items, reach, <<IF Len(reach) > Len(items) THEN reach[Len(reach)] ELSE {}>>)
  ELSE IF Len(live) > Len(items) \/ live[1] = {} THEN live
  ELSE MatchLive(s, items, reach,
         <<{p \in reach[Len(items) + 1 - Len(live)] :
              \E w \in Ways(s, items[Len(items) + 1 - Len(live)], p) : w.next \in live[1]}>> \o live)

\* path: the start of the match and the positions after each item on the path a
\* backtracking matcher finds first
RECURSIVE MatchEnds(_, _, _, _)
MatchEnds(s, items, live, path) ==
  IF live[1] = {} THEN NoMatch
  ELSE IF Len(path) > Len(items) THEN [ok |-> TRUE, start |-> path[1], ends |-> Tail(path)]
  ELSE MatchEnds(s, items, live,
         Append(path, BestWay({w \in Ways(s, items[Len(path)], path[Len(path)]) :
                                 w.next \in live[Len(path) + 1]}).next))

\* the match of the items from 1-based position i on: ends[k] is the position after item k
MatchItems(s, i, items) ==
  MatchEnds(s, items, MatchLive(s, items, MatchReach(s, items, <<{i}>>), <<>>), <<i>>)

\* s.match(re) for an expression that is not anchored: the leftmost match
FirstMatch(s, items) ==
  Bind({m \in {MatchItems(s, i, items) : i \in 1..(Len(s) + 1)} : m.ok},
       LAMBDA found : IF found = {} THEN NoMatch
                      ELSE CHOOSE m \in found : \A u \in found : m.start <= u.start)

\* the text matched by item k of a match m of s
Group(s, m, k) == SubSeq(s, IF k = 1 THEN m.start ELSE m.ends[k - 1], m.ends[k] - 1)

\* \b at 1-based position i of s (between s[i-1] and s[i])
WordBoundary(s, i) ==
  (i - 1 >= 1 /\ s[i - 1] \in WordChar) # (i <= Len(s) /\ s[i] \in WordChar)

\* /\b(w1|w2|...)\b/ matches somewhere in s
MatchesWholeWord(s, words) ==
  \E w \in words : \E i \in 1..(Len(s) - Len(w) + 1) :
    /\ SubSeq(s, i, i + Len(w) - 1) = w
    /\ WordBoundary(s, i)
    /\ WordBoundary(s, i + Len(w))

\* parseInt(s, 10) || 0 for a captured group s (<<>> stands for an undefined group):
\* the leading decimal digits, and 0 when there is none (NaN)
ParseIntOr0(s) == ParseInt(SubSeq(s, 1, SpanIn(s, 1, Digit)))

(***************************************************************************)
(* Test output aggregation (src/src/techniques/test-output.ts).            *)
(***************************************************************************)
TEST_COMMANDS ==
  { <<"t", "e", "s", "t">>, <<"j", "e", "s", "t">>, <<"v", "i", "t", "e", "s", "t">>, <<"p", "y", "t", "e", "s", "t">>, <<"c", "a", "r", "g", "o", " ", "t", "e", "s", "t">>, <<"b", "u", "n", " ", "t", "e", "s", "t">>, <<"g", "o", " ", "t", "e", "s", "t">>,
    <<"m", "o", "c", "h", "a">>, <<"a", "v", "a">>, <<"t", "a", "p">> }

isTestCommand(command) ==
  LET cmdLower == ToLowerCase(command)
  IN  \E tc \in TEST_COMMANDS : Includes(cmdLower, ToLowerCase(tc))

isFailureStart(line) ==
  \/ StartsWith(line, <<"F", "A", "I", "L">>) /\ Len(line) >= 5 /\ line[5] \in Whitespace
  \/ StartsWith(line, <<"F", "A", "I", "L", "E", "D">>) /\ Len(line) >= 7 /\ line[7] \in Whitespace
  \/ MatchesProgress(line, <<"U+25CF">>)
  \/ MatchesProgress(line, <<"U+2715">>)
  \/ FirstMatch(line, <<Lit(<<"t", "e", "s", "t">>), Rep(Whitespace, 1), Rep(WordChar, 1), Rep(Whitespace, 1),
                        Lit(<<".", ".", ".">>), Rep(Whitespace, 0), Lit(<<"F", "A", "I", "L", "E", "D">>)>>).ok
  \/ FirstMatch(line, <<Lit(<<"t", "h", "r", "e", "a", "d">>), Rep(Whitespace, 1), Lit(<<"'">>), Rep(WordChar, 1),
                        Lit(<<"'">>), Rep(Whitespace, 1), Lit(<<"p", "a", "n", "i", "c", "k", "e", "d">>)>>).ok

\* the optional group (?:,\s*(\d+)\s*word)? at position i: the digits captured, <<>> when
\* the group does not take part, and the position after it
OptionalCount(s, i, word) ==
  Bind(MatchItems(s, i, <<Lit(<<",">>), Rep(Whitespace, 0), Rep(Digit, 1),
                          Rep(Whitespace, 0), LitCI(word)>>),
       LAMBDA m : IF m.ok THEN [cap |-> Group(s, m, 3), next |-> m.ends[5]]
                  ELSE [cap |-> <<>>, next |-> i])

\* the three groups of /prefix(\d+)\s*w1(?:,\s*(\d+)\s*w2)?(?:,\s*(\d+)\s*w3)?/i
CountTemplate(s, prefix, w1, w2, w3) ==
  Bind(FirstMatch(s, prefix \o <<Rep(Digit, 1), Rep(Whitespace, 0), LitCI(w1)>>),
       LAMBDA m :
         IF ~m.ok THEN [ok |-> FALSE, g |-> <<>>]
         ELSE Bind(OptionalCount(s, m.ends[Len(prefix) + 3], w2),
                   LAMBDA g2 :
                     [ok |-> TRUE,
                      g |-> <<Group(s, m, Len(prefix) + 1), g2.cap,
                              OptionalCount(s, g2.next, w3).cap>>]))

\* the groups of the first of TEST_RESULT_PATTERNS that matches (test-output.ts:25-34)
TestResultMatch(s) ==
  Bind(FirstMatch(s, <<Lit(<<"t", "e", "s", "t", " ", "r", "e", "s", "u", "l", "t", ":">>), Rep(Whitespace, 0), Rep(WordChar, 1),
                       Lit(<<".">>), Rep(Whitespace, 0), Rep(Digit, 1), Rep(Whitespace, 0),
                       Lit(<<"p", "a", "s", "s", "e", "d", ";">>), Rep(Whitespace, 0), Rep(Digit, 1),
                       Rep(Whitespace, 0), Lit(<<"f", "a", "i", "l", "e", "d", ";">>)>>),
       LAMBDA rust :
         IF rust.ok
         THEN [ok |-> TRUE, g |-> <<Group(s, rust, 3), Group(s, rust, 6), Group(s, rust, 10)>>]
         ELSE Bind(CountTemplate(s, <<>>, <<"p", "a", "s", "s", "e", "d">>, <<"f", "a", "i", "l", "e", "d">>, <<"s", "k", "i", "p", "p", "e", "d">>),
                   LAMBDA generic :
                     IF generic.ok THEN generic
                     ELSE Bind(CountTemplate(s, <<>>, <<"p", "a", "s", "s">>, <<"f", "a", "i", "l">>, <<"s", "k", "i", "p">>),
                               LAMBDA bun :
                                 IF bun.ok THEN bun
                                 ELSE CountTemplate(s, <<LitCI(<<"t", "e", "s", "t">>), Opt({"s", "S"}), Lit(<<":">>),
                                                         Rep(Whitespace, 0)>>,
                                                    <<"p", "a", "s", "s", "e", "d">>, <<"f", "a", "i", "l", "e", "d">>, <<"s", "k", "i", "p", "p", "e", "d">>))))

\* counts read from the groups next to the words passed and failed
extractTestStatsByLabel(output_) ==
  Bind(TestResultMatch(output_),
       LAMBDA m : IF m.ok
                  THEN [passed |-> ParseIntOr0(m.g[2]), failed |-> ParseIntOr0(m.g[3]),
                        skipped |-> 0]
                  ELSE [passed |-> 0, failed |-> 0, skipped |-> 0])

\* extractTestStats: match[1], match[2], match[3] of the first pattern that
\* matches, read as passed, failed, skipped (test-output.ts:54-68)
extractTestStats(output_) ==
  Bind(TestResultMatch(output_),
       LAMBDA m : IF m.ok
                  THEN [passed |-> ParseIntOr0(m.g[1]), failed |-> ParseIntOr0(m.g[2]),
                        skipped |-> ParseIntOr0(m.g[3])]
                  ELSE [passed |-> 0, failed |-> 0, skipped |-> 0])

\* one iteration of the failure loop of aggregateTestOutput (test-output.ts:104-136)
TestLine(st, line) ==
  IF isFailureStart(line)
    THEN [st EXCEPT !.failures = IF st.inFailure /\ Len(st.currentFailure) > 0
                                   THEN Append(@, Join(st.currentFailure, <<"\n">>)) ELSE @,
                    !.inFailure = TRUE,
                    !.currentFailure = <<line>>,
                    !.blankCount = 0]
  ELSE IF st.inFailure THEN
    IF Trim(line) = <<>> THEN
      IF st.blankCount + 1 >= 2 /\ Len(st.currentFailure) > 3
        THEN [st EXCEPT !.blankCount = @ + 1,
                        !.failures = Append(@, Join(st.currentFailure, <<"\n">>)),
                        !.inFailure = FALSE,
                        !.currentFailure = <<>>]
        ELSE [st EXCEPT !.blankCount = @ + 1, !.currentFailure = Append(@, line)]
    ELSE IF line[1] \in Whitespace \/ line[1] = "-"
      THEN [st EXCEPT !.currentFailure = Append(@, line), !.blankCount = 0]
    ELSE [st EXCEPT !.failures = Append(@, Join(st.currentFailure, <<"\n">>)),
                    !.inFailure = FALSE,
                    !.currentFailure = <<>>]
  ELSE st

RECURSIVE TestScan(_, _, _)
TestScan(lines, i, st) ==
  IF i > Len(lines) \/ st # st THEN st ELSE TestScan(lines, i + 1, TestLine(st, lines[i]))

\* text.slice(0, width) followed by '...' when the text is longer
Ellipsis(text, width) ==
  Slice(text, 0, width) \o (IF Len(text) > width THEN <<".", ".", ".">> ELSE <<>>)

\* the lines printed for one failure block (test-output.ts:156-166)
FailureLines(failure) ==
  Bind(Split(failure, "\n"),
       LAMBDA lines :
         <<<<" ", " ", " ", "U+2022", " ">> \o Ellipsis(lines[1], 70)>>
           \o Bind(SelectSeq(SubSeq(lines, 2, Min(4, Len(lines))), LAMBDA l : Trim(l) # <<>>),
                   LAMBDA kept : [k \in 1..Len(kept) |-> <<" ", " ", " ", " ", " ">> \o Ellipsis(kept[k], 65)])
           \o (IF Len(lines) > 4
               THEN <<<<" ", " ", " ", " ", " ", ".", ".", ".", " ", "(">> \o NumToStr(Len(lines) - 4) \o <<" ", "m", "o", "r", "e", " ", "l", "i", "n", "e", "s", ")">>>>
               ELSE <<>>))

RECURSIVE FailuresLines(_)
FailuresLines(failures) ==
  IF failures = <<>> THEN <<>>
  ELSE FailureLines(failures[1]) \o FailuresLines(Tail(failures))

\* the summary built from the counts and the failure blocks (test-output.ts:143-173)
TestReport(passed, failed, skipped, failures) ==
  Some(Join(
    <<<<"U+D83D", "U+DCCB", " ", "T", "e", "s", "t", " ", "R", "e", "s", "u", "l", "t", "s", ":">>, <<" ", " ", " ", "U+2705", " ">> \o NumToStr(passed) \o <<" ", "p", "a", "s", "s", "e", "d">>>>
    \o (IF failed > 0 THEN <<<<" ", " ", " ", "U+274C", " ">> \o NumToStr(failed) \o <<" ", "f", "a", "i", "l", "e", "d">>>> ELSE <<>>)
    \o (IF skipped > 0 THEN <<<<" ", " ", " ", "U+23ED", "U+FE0F", " ", " ">> \o NumToStr(skipped) \o <<" ", "s", "k", "i", "p", "p", "e", "d">>>> ELSE <<>>)
    \o (IF failed > 0 /\ Len(failures) > 0
        THEN <<<<"\n", " ", " ", " ", "F", "a", "i", "l", "u", "r", "e", "s", ":">>>>
               \o FailuresLines(SubSeq(failures, 1, Min(5, Len(failures))))
               \o (IF Len(failures) > 5
                   THEN <<<<" ", " ", " ", ".", ".", ".", " ", "a", "n", "d", " ">> \o NumToStr(Len(failures) - 5) \o <<" ", "m", "o", "r", "e", " ", "f", "a", "i", "l", "u", "r", "e", "s">>>>
                   ELSE <<>>)
        ELSE <<>>),
    <<"\n">>))

\* the failure blocks the line loop collects when there are failures (test-output.ts:98-141)
TestFailures(lines) ==
  Bind(TestScan(lines, 1, [failures |-> <<>>, inFailure |-> FALSE,
                           currentFailure |-> <<>>, blankCount |-> 0]),
       LAMBDA scanned :
         IF scanned.inFailure /\ Len(scanned.currentFailure) > 0
         THEN Append(scanned.failures, Join(scanned.currentFailure, <<"\n">>))
         ELSE scanned.failures)

aggregateTestOutput(output_, command) ==
  IF ~isTestCommand(command) THEN Null
  ELSE
    Bind(Split(output_, "\n"), LAMBDA lines :
    Bind(extractTestStats(output_), LAMBDA stats :
    Bind(IF stats.passed = 0 /\ stats.failed = 0
         THEN Len(SelectSeq(lines, LAMBDA l :
                MatchesWholeWord(l, {<<"o", "k">>, <<"P", "A", "S", "S">>, <<"U+2713">>, <<"U+2714">>})))
         ELSE stats.passed, LAMBDA passed :
    Bind(IF stats.passed = 0 /\ stats.failed = 0
         THEN Len(SelectSeq(lines, LAMBDA l :
                MatchesWholeWord(l, {<<"F", "A", "I", "L">>, <<"f", "a", "i", "l">>, <<"U+2717">>, <<"U+2715">>})))
         ELSE stats.failed, LAMBDA failed :
      TestReport(passed, failed, stats.skipped,
                 IF failed = 0 THEN <<>> ELSE TestFailures(lines))))))

(***************************************************************************)
(* Linter output aggregation (linter.ts, src/unnamed/part_005).            *)
(***************************************************************************)
LINTER_COMMANDS ==
  { <<"e", "s", "l", "i", "n", "t">>, <<"t", "s", "l", "i", "n", "t">>, <<"r", "u", "f", "f">>, <<"p", "y", "l", "i", "n", "t">>, <<"f", "l", "a", "k", "e", "8">>, <<"m", "y", "p", "y">>, <<"b", "l", "a", "c", "k", " ", "-", "-", "c", "h", "e", "c", "k">>,
    <<"r", "u", "b", "o", "c", "o", "p">>, <<"g", "o", "l", "a", "n", "g", "c", "i", "-", "l", "i", "n", "t">>, <<"c", "l", "i", "p", "p", "y">>, <<"c", "a", "r", "g", "o", " ", "c", "l", "i", "p", "p", "y">> }

isLinterCommand(command) ==
  LET cmdLower == ToLowerCase(command)
  IN  \E lc \in LINTER_COMMANDS : Includes(cmdLower, ToLowerCase(lc))

detectLinterType(command) ==
  LET cmdLower == ToLowerCase(command)
  IN  IF Includes(cmdLower, <<"e", "s", "l", "i", "n", "t">>) THEN <<"e", "s", "l", "i", "n", "t">>
      ELSE IF Includes(cmdLower, <<"r", "u", "f", "f">>) THEN <<"r", "u", "f", "f">>
      ELSE IF Includes(cmdLower, <<"p", "y", "l", "i", "n", "t">>) THEN <<"p", "y", "l", "i", "n", "t">>
      ELSE IF Includes(cmdLower, <<"f", "l", "a", "k", "e", "8">>) THEN <<"f", "l", "a", "k", "e", "8">>
      ELSE IF Includes(cmdLower, <<"m", "y", "p", "y">>) THEN <<"m", "y", "p", "y">>
      ELSE IF Includes(cmdLower, <<"g", "o", "l", "a", "n", "g", "c", "i">>) THEN <<"g", "o", "l", "a", "n", "g", "c", "i">>
      ELSE <<"e", "s", "l", "i", "n", "t">>

\* the prefix ^(.+):(\d+): of every linter pattern, with a third (\d+): when withCol
IssuePrefix(withCol) ==
  <<Dots(1), Lit(<<":">>), Rep(Digit, 1), Lit(<<":">>)>>
    \o (IF withCol THEN <<Rep(Digit, 1), Lit(<<":">>)>> ELSE <<>>)

NoIssue == [isNull |-> TRUE, file |-> <<>>, line |-> 0, rule |-> <<>>, severity |-> <<>>]

Issue(s, m, rule, severity) ==
  [isNull |-> FALSE, file |-> Group(s, m, 1), line |-> ParseInt(Group(s, m, 3)),
   rule |-> rule, severity |-> severity]

SeverityOfRule(rule) == IF rule[1] = "E" THEN <<"e", "r", "r", "o", "r">> ELSE <<"w", "a", "r", "n", "i", "n", "g">>

\* (error|warning)
SeverityWord == Alt(<<<<"e", "r", "r", "o", "r">>, <<"w", "a", "r", "n", "i", "n", "g">>>>)

parseIssue(line, linterType) ==
  IF linterType = <<"r", "u", "f", "f">> \/ linterType = <<"f", "l", "a", "k", "e", "8">> THEN
    Bind(MatchItems(line, 1, IssuePrefix(TRUE) \o
           <<Rep(Whitespace, 1), One(Uppercase), Rep(Digit, 1), Rep(Whitespace, 1), Dots(1), End>>),
         LAMBDA m : IF m.ok
                    THEN Issue(line, m, SubSeq(line, m.ends[7], m.ends[9] - 1),
                               SeverityOfRule(SubSeq(line, m.ends[7], m.ends[9] - 1)))
                    ELSE NoIssue)
  ELSE IF linterType = <<"p", "y", "l", "i", "n", "t">> THEN
    Bind(MatchItems(line, 1, IssuePrefix(FALSE) \o
           <<Rep(Whitespace, 1), One(Uppercase), Rep(Digit, 1), Rep(Whitespace, 0),
             Lit(<<":">>), Rep(Whitespace, 0), Dots(1), End>>),
         LAMBDA m : IF m.ok
                    THEN Issue(line, m, SubSeq(line, m.ends[5], m.ends[7] - 1),
                               SeverityOfRule(SubSeq(line, m.ends[5], m.ends[7] - 1)))
                    ELSE NoIssue)
  ELSE IF linterType = <<"m", "y", "p", "y">> THEN
    Bind(MatchItems(line, 1, IssuePrefix(FALSE) \o
           <<Rep(Whitespace, 1), SeverityWord, Lit(<<":">>), Rep(Whitespace, 1), Dots(1), End>>),
         LAMBDA m : IF m.ok THEN Issue(line, m, <<"u", "n", "k", "n", "o", "w", "n">>, Group(line, m, 6)) ELSE NoIssue)
  ELSE IF linterType = <<"g", "o", "l", "a", "n", "g", "c", "i">> THEN
    Bind(MatchItems(line, 1, IssuePrefix(FALSE) \o <<Rep(Whitespace, 1), Dots(1), End>>),
         LAMBDA m : IF m.ok THEN Issue(line, m, <<"u", "n", "k", "n", "o", "w", "n">>, <<"w", "a", "r", "n", "i", "n", "g">>) ELSE NoIssue)
  ELSE
    Bind(MatchItems(line, 1, IssuePrefix(TRUE) \o
           <<Rep(Whitespace, 1), SeverityWord, Rep(Whitespace, 1), DotsLazy(1),
             Rep(Whitespace, 1), Dots(1), End>>),
         LAMBDA m :
           IF m.ok THEN Issue(line, m, Group(line, m, 12), Group(line, m, 8))
           ELSE Bind(MatchItems(line, 1, IssuePrefix(TRUE) \o
                       <<Rep(Whitespace, 1), SeverityWord, Rep(Whitespace, 1), Dots(1), End>>),
                     LAMBDA m2 : IF m2.ok THEN Issue(line, m2, <<"u", "n", "k", "n", "o", "w", "n">>, Group(line, m2, 8))
                                 ELSE NoIssue))

\* compactPath(path) with maxLength = 50 (also in search.ts)
compactPath(path) ==
  LET parts == Split(path, "/")
  IN  IF Len(path) <= 50 \/ Len(parts) <= 3 THEN path
      ELSE parts[1] \o <<"/", ".", ".", ".", "/">> \o parts[Len(parts) - 1] \o <<"/">> \o parts[Len(parts)]

\* the distinct keys of a sequence with their numbers of occurrences, in the order of
\* first occurrence (the property order of the Record the code counts in)
RECURSIVE Tally(_)
Tally(keys) ==
  IF keys = <<>> THEN <<>>
  ELSE <<[key |-> keys[1], count |-> Len(SelectSeq(keys, LAMBDA x : x = keys[1]))]>>
         \o Tally(SelectSeq(keys, LAMBDA x : x # keys[1]))

\* entries.sort((a, b) => b.count - a.count): descending, stable
RECURSIVE SortByCountDesc(_)
SortByCountDesc(entries) ==
  IF entries = <<>> THEN <<>>
  ELSE Bind(CHOOSE k \in 1..Len(entries) :
              /\ \A j \in 1..Len(entries) : entries[j].count <= entries[k].count
              /\ \A j \in 1..(k - 1) : entries[j].count < entries[k].count,
            LAMBDA i : <<entries[i]>>
                         \o SortByCountDesc(SubSeq(entries, 1, i - 1)
                                              \o SubSeq(entries, i + 1, Len(entries))))

\* the lines printed for the top files (linter.ts:177-189)
RECURSIVE LinterFileLines(_, _)
LinterFileLines(files, issues) ==
  IF files = <<>> THEN <<>>
  ELSE
    Bind(SelectSeq(issues, LAMBDA x : x.file = files[1].key), LAMBDA own :
    Bind(SortByCountDesc(Tally([k \in 1..Len(own) |-> own[k].rule])), LAMBDA rules :
      <<<<" ", " ">> \o compactPath(files[1].key) \o <<" ", "(">> \o NumToStr(files[1].count) \o <<" ", "i", "s", "s", "u", "e", "s", ")">>>>
        \o [k \in 1..Min(3, Len(rules)) |->
              <<" ", " ", " ", " ">> \o rules[k].key \o <<" ", "(">> \o NumToStr(rules[k].count) \o <<")">>]
        \o (IF Len(rules) > 3
            THEN <<<<" ", " ", " ", " ", ".", ".", ".", " ", "+">> \o NumToStr(Len(rules) - 3) \o <<" ", "m", "o", "r", "e">>>> ELSE <<>>)
        \o LinterFileLines(Tail(files), issues)))

\* the summary built from the parsed issues (linter.ts:138-194)
LinterReport(linterType, issues, sortedRules, sortedFiles) ==
  Some(Join(
    <<linterType \o <<":", " ">>
        \o NumToStr(Len(SelectSeq(issues, LAMBDA x : x.severity = <<"e", "r", "r", "o", "r">>))) \o <<" ", "e", "r", "r", "o", "r", "s", ",", " ">>
        \o NumToStr(Len(SelectSeq(issues, LAMBDA x : x.severity = <<"w", "a", "r", "n", "i", "n", "g">>)))
        \o <<" ", "w", "a", "r", "n", "i", "n", "g", "s", " ", "i", "n", " ">> \o NumToStr(Len(sortedFiles)) \o <<" ", "f", "i", "l", "e", "s">>,
      <<"U+2550", "U+2550", "U+2550", "U+2550", "U+2550", "U+2550", "U+2550", "U+2550", "U+2550", "U+2550", "U+2550", "U+2550", "U+2550", "U+2550", "U+2550", "U+2550", "U+2550", "U+2550", "U+2550", "U+2550", "U+2550", "U+2550", "U+2550", "U+2550", "U+2550", "U+2550", "U+2550", "U+2550", "U+2550", "U+2550", "U+2550", "U+2550", "U+2550", "U+2550", "U+2550", "U+2550", "U+2550", "U+2550", "U+2550">>,
      <<"T", "o", "p", " ", "r", "u", "l", "e", "s", ":">>>>
    \o [k \in 1..Min(10, Len(sortedRules)) |->
          <<" ", " ">> \o sortedRules[k].key \o <<" ", "(">> \o NumToStr(sortedRules[k].count) \o <<"x", ")">>]
    \o (IF Len(sortedRules) > 10
        THEN <<<<" ", " ", ".", ".", ".", " ", "+">> \o NumToStr(Len(sortedRules) - 10) \o <<" ", "m", "o", "r", "e">>>> ELSE <<>>)
    \o <<<<"\n", "T", "o", "p", " ", "f", "i", "l", "e", "s", ":">>>>
    \o LinterFileLines(SubSeq(sortedFiles, 1, Min(10, Len(sortedFiles))), issues)
    \o (IF Len(sortedFiles) > 10
        THEN <<<<"\n", ".", ".", ".", " ", "+">> \o NumToStr(Len(sortedFiles) - 10) \o <<" ", "m", "o", "r", "e", " ", "f", "i", "l", "e", "s">>>>
        ELSE <<>>),
    <<"\n">>))

\* a report that lists rules and files in the order of their first issue
aggregateLinterOutputUnsorted(output_, command) ==
  IF ~isLinterCommand(command) THEN Null
  ELSE
    Bind(detectLinterType(command), LAMBDA linterType :
    Bind(Split(output_, "\n"), LAMBDA lines :
    Bind(SelectSeq([k \in 1..Len(lines) |-> parseIssue(lines[k], linterType)],
                   LAMBDA x : ~x.isNull), LAMBDA issues :
      IF Len(issues) = 0 THEN
        IF \/ FirstMatch(output_, <<LitCI(<<"n", "o">>), Rep(Whitespace, 1),
                 [Alt(<<<<"e", "r", "r", "o", "r", "s">>, <<"p", "r", "o", "b", "l", "e", "m", "s">>, <<"i", "s", "s", "u", "e", "s">>>>) EXCEPT !.ci = TRUE]>>).ok
           \/ Includes(output_, <<"c", "l", "e", "a", "n">>)
           \/ Includes(output_, <<"U+2713">>)
        THEN Some(<<"U+2713", " ">> \o linterType \o <<":", " ", "N", "o", " ", "i", "s", "s", "u", "e", "s", " ", "f", "o", "u", "n", "d">>)
        ELSE Null
      ELSE LinterReport(linterType, issues,
                        Tally([k \in 1..Len(issues) |-> issues[k].rule]),
                        Tally([k \in 1..Len(issues) |-> issues[k].file])))))

aggregateLinterOutput(output_, command) ==
  IF ~isLinterCommand(command) THEN Null
  ELSE
    Bind(detectLinterType(command), LAMBDA linterType :
    Bind(Split(output_, "\n"), LAMBDA lines :
    Bind(SelectSeq([k \in 1..Len(lines) |-> parseIssue(lines[k], linterType)],
                   LAMBDA x : ~x.isNull), LAMBDA issues :
      IF Len(issues) = 0 THEN
        IF \/ FirstMatch(output_, <<LitCI(<<"n", "o">>), Rep(Whitespace, 1),
                 [Alt(<<<<"e", "r", "r", "o", "r", "s">>, <<"p", "r", "o", "b", "l", "e", "m", "s">>, <<"i", "s", "s", "u", "e", "s">>>>) EXCEPT !.ci = TRUE]>>).ok
           \/ Includes(output_, <<"c", "l", "e", "a", "n">>)
           \/ Includes(output_, <<"U+2713">>)
        THEN Some(<<"U+2713", " ">> \o linterType \o <<":", " ", "N", "o", " ", "i", "s", "s", "u", "e", "s", " ", "f", "o", "u", "n", "d">>)
        ELSE Null
      ELSE LinterReport(linterType, issues,
                        SortByCountDesc(Tally([k \in 1..Len(issues) |-> issues[k].rule])),
                        SortByCountDesc(Tally([k \in 1..Len(issues) |-> issues[k].file]))))))

(***************************************************************************)
(* Git output compaction (git.ts, src/unnamed/part_003).                   *)
(***************************************************************************)
GIT_COMMANDS == { <<"g", "i", "t", " ", "d", "i", "f", "f">>, <<"g", "i", "t", " ", "s", "t", "a", "t", "u", "s">>, <<"g", "i", "t", " ", "l", "o", "g">>, <<"g", "i", "t", " ", "s", "h", "o", "w">>, <<"g", "i", "t", " ", "s", "t", "a", "s", "h">> }

isGitCommand(command) ==
  LET cmdLower == ToLowerCase(command)
  IN  \E gc \in GIT_COMMANDS : StartsWith(cmdLower, gc)

\* the '  +a -r' line pushed for the previous file when it had changes
DiffFlush(st) ==
  IF st.currentFile # <<>> /\ (st.added > 0 \/ st.removed > 0)
  THEN Append(st.result, <<" ", " ", "+">> \o NumToStr(st.added) \o <<" ", "-">> \o NumToStr(st.removed))
  ELSE st.result

\* a line inside a hunk (git.ts): add is 1 for an added line, del is 1 for a removed one
HunkLine(st, line, add, del) ==
  IF st.hunkLines < 10 /\ (add + del > 0 \/ (~StartsWith(line, <<"\\">>) /\ st.hunkLines > 0))
  THEN [st EXCEPT !.added = @ + add, !.removed = @ + del,
                  !.result = IF st.hunkLines = 9
                             THEN Append(Append(@, <<" ", " ">> \o line), <<" ", " ", ".", ".", ".", " ", "(", "t", "r", "u", "n", "c", "a", "t", "e", "d", ")">>)
                             ELSE Append(@, <<" ", " ">> \o line),
                  !.hunkLines = IF st.hunkLines = 9 THEN 11 ELSE @ + 1]
  ELSE [st EXCEPT !.added = @ + add, !.removed = @ + del]

\* one iteration of the line loop of compactDiff with maxLines = 50 (git.ts:21-79)
DiffLine(st, line) ==
  IF st.stopped THEN st
  ELSE IF Len(st.result) >= 50
    THEN [st EXCEPT !.result = Append(@, <<"\n", ".", ".", ".", " ", "(", "m", "o", "r", "e", " ", "c", "h", "a", "n", "g", "e", "s", " ", "t", "r", "u", "n", "c", "a", "t", "e", "d", ")">>), !.stopped = TRUE]
  ELSE IF StartsWith(line, <<"d", "i", "f", "f", " ", "-", "-", "g", "i", "t">>) THEN
    Bind(FirstMatch(line, <<Lit(<<"d", "i", "f", "f", " ", "-", "-", "g", "i", "t", " ", "a", "/">>), Dots(1), Lit(<<" ", "b", "/">>), Dots(1)>>),
         LAMBDA m :
           [st EXCEPT !.result = Append(DiffFlush(st),
                                   <<"\n", "U+D83D", "U+DCC4", " ">> \o (IF m.ok THEN Group(line, m, 4) ELSE <<"u", "n", "k", "n", "o", "w", "n">>)),
                      !.currentFile = IF m.ok THEN Group(line, m, 4) ELSE <<"u", "n", "k", "n", "o", "w", "n">>,
                      !.added = 0, !.removed = 0, !.inHunk = FALSE])
  ELSE IF StartsWith(line, <<"@", "@">>) THEN
    Bind(FirstMatch(line, <<Lit(<<"@", "@", " ">>), Dots(1), Lit(<<" ", "@", "@">>)>>),
         LAMBDA m :
           [st EXCEPT !.inHunk = TRUE, !.hunkLines = 0,
                      !.result = Append(@, <<" ", " ">> \o (IF m.ok THEN SubSeq(line, m.start, m.ends[3] - 1)
                                                      ELSE <<"@", "@">>))])
  ELSE IF st.inHunk THEN
    IF StartsWith(line, <<"+">>) /\ ~StartsWith(line, <<"+", "+", "+">>) THEN HunkLine(st, line, 1, 0)
    ELSE IF StartsWith(line, <<"-">>) /\ ~StartsWith(line, <<"-", "-", "-">>) THEN HunkLine(st, line, 0, 1)
    ELSE HunkLine(st, line, 0, 0)
  ELSE st

RECURSIVE DiffScan(_, _, _)
DiffScan(lines, i, st) ==
  IF i > Len(lines) \/ st # st THEN st ELSE DiffScan(lines, i + 1, DiffLine(st, lines[i]))

compactDiff(output_) ==
  Join(DiffFlush(DiffScan(Split(output_, "\n"), 1,
                          [result |-> <<>>, currentFile |-> <<>>, added |-> 0, removed |-> 0,
                           inHunk |-> FALSE, hunkLines |-> 0, stopped |-> FALSE])),
       <<"\n">>)

\* the entries of compactStatus's line loop (git.ts:118-157): the porcelain lines that are
\* classified, i.e. all but an 'On branch ' first line and the lines shorter than 3
StatusEntries(lines) ==
  LET idx == SelectSeq([k \in 1..Len(lines) |-> k], LAMBDA k :
               /\ ~(k = 1 /\ StartsWith(lines[1], <<"O", "n", " ", "b", "r", "a", "n", "c", "h", " ">>))
               /\ Len(lines[k]) >= 3)
  IN  [k \in 1..Len(idx) |-> lines[idx[k]]]

\* a bucket of compactStatus: its header, at most `cap` file names, and the elision line
StatusBucket(header, files, cap) ==
  IF Len(files) = 0 THEN <<>>
  ELSE <<header \o NumToStr(Len(files)) \o <<" ", "f", "i", "l", "e", "s">>>>
         \o [k \in 1..Min(cap, Len(files)) |-> <<" ", " ">> \o files[k]]
         \o (IF Len(files) > cap
             THEN <<<<" ", " ", ".", ".", ".", " ", "+">> \o NumToStr(Len(files) - cap) \o <<" ", "m", "o", "r", "e">>>> ELSE <<>>)

compactStatus(output_) ==
  LET lines == Split(output_, "\n")
      entries == StatusEntries(lines)
      tracked == SelectSeq(entries, LAMBDA l : SubSeq(l, 1, 2) # <<"?", "?">>)
      files(ls) == [k \in 1..Len(ls) |-> SliceFrom(ls[k], 3)]
      staged == files(SelectSeq(tracked, LAMBDA l : l[1] \in {"M", "A", "D", "R", "C"}))
      modified == files(SelectSeq(tracked, LAMBDA l : l[2] \in {"M", "D"}))
      untracked == files(SelectSeq(entries, LAMBDA l : SubSeq(l, 1, 2) = <<"?", "?">>))
      conflicts == Len(SelectSeq(tracked, LAMBDA l : l[1] = "U"))
      branchName == IF StartsWith(lines[1], <<"O", "n", " ", "b", "r", "a", "n", "c", "h", " ">>) THEN SliceFrom(lines[1], 10) ELSE <<>>
      text == Join(
        (IF branchName # <<>> THEN <<<<"U+D83D", "U+DCCC", " ">> \o branchName>> ELSE <<>>)
        \o StatusBucket(<<"U+2705", " ", "S", "t", "a", "g", "e", "d", ":", " ">>, staged, 5)
        \o StatusBucket(<<"U+D83D", "U+DCDD", " ", "M", "o", "d", "i", "f", "i", "e", "d", ":", " ">>, modified, 5)
        \o StatusBucket(<<"U+2753", " ", "U", "n", "t", "r", "a", "c", "k", "e", "d", ":", " ">>, untracked, 3)
        \o (IF conflicts > 0
            THEN <<<<"U+26A0", "U+FE0F", " ", " ", "C", "o", "n", "f", "l", "i", "c", "t", "s", ":", " ">> \o NumToStr(conflicts) \o <<" ", "f", "i", "l", "e", "s">>>> ELSE <<>>),
        <<"\n">>)
  IN  IF Len(lines) = 1 /\ Trim(lines[1]) = <<>> THEN <<"C", "l", "e", "a", "n", " ", "w", "o", "r", "k", "i", "n", "g", " ", "t", "r", "e", "e">>
      ELSE IF text = <<>> THEN <<"C", "l", "e", "a", "n", " ", "w", "o", "r", "k", "i", "n", "g", " ", "t", "r", "e", "e">>
      ELSE text

\* compactLog(output) with limit = 20
compactLog(output_) ==
  LET lines == Split(output_, "\n")
  IN  Join([k \in 1..Min(Len(lines), 20) |->
              IF Len(lines[k]) > 80 THEN Slice(lines[k], 0, 77) \o <<".", ".", ".">> ELSE lines[k]]
           \o (IF Len(lines) > 20
               THEN <<<<".", ".", ".", " ", "+">> \o NumToStr(Len(lines) - 20) \o <<" ", "m", "o", "r", "e", " ", "c", "o", "m", "m", "i", "t", "s">>>> ELSE <<>>),
           <<"\n">>)

compactGitOutput(output_, command) ==
  LET cmdLower == ToLowerCase(command)
  IN  IF ~isGitCommand(command) THEN Null
      ELSE IF Includes(cmdLower, <<"d", "i", "f", "f">>) THEN Some(compactDiff(output_))
      ELSE IF Includes(cmdLower, <<"s", "t", "a", "t", "u", "s">>) THEN Some(compactStatus(output_))
      ELSE IF Includes(cmdLower, <<"l", "o", "g">>) THEN Some(compactLog(output_))
      ELSE Null

(***************************************************************************)
(* Search result grouping (search.ts, src/unnamed/part_004).               *)
(***************************************************************************)
\* the code units of the texts of the model in ascending order of their UTF-16 value,
\* the order Array.prototype.sort() compares strings by
CodeUnitOrder ==
  <<"BEL", "\t", "\n", "U+000B", "\f", "\r", "ESC", " ", "!", "\"", "#", "$", "%", "&", "'",
    "(", ")", "*", "+", ",", "-", ".", "/", "0", "1", "2", "3", "4", "5", "6", "7", "8", "9",
    ":", ";", "<", "=", ">", "?", "@", "A", "B", "C", "D", "E", "F", "G", "H", "I", "J", "K",
    "L", "M", "N", "O", "P", "Q", "R", "S", "T", "U", "V", "W", "X", "Y", "Z", "[", "\\", "]",
    "^", "_", "U+0060", "a", "b", "c", "d", "e", "f", "g", "h", "i", "j", "k", "l", "m", "n", "o",
    "p", "q", "r", "s", "t", "u", "v", "w", "x", "y", "z", "{", "|", "}", "~", "U+00A0",
    "U+2022", "U+2028", "U+2029", "U+23ED", "U+2550", "U+25CF", "U+26A0", "U+2705", "U+2713",
    "U+2714", "U+2715", "U+2717", "U+274C", "U+2753", "U+D83D", "U+DCC4", "U+DCCB", "U+DCCC",
    "U+DCDD", "U+DD0D", "U+FE0F", "U+FEFF">>

CodeUnitRank(c) == CHOOSE k \in 1..Len(CodeUnitOrder) : CodeUnitOrder[k] = c

\* a < b as JavaScript compares two strings
RECURSIVE StringLess(_, _)
StringLess(a, b) ==
  IF b = <<>> THEN FALSE
  ELSE IF a = <<>> THEN TRUE
  ELSE IF a[1] = b[1] THEN StringLess(Tail(a), Tail(b))
  ELSE CodeUnitRank(a[1]) < CodeUnitRank(b[1])

\* keys.sort() for distinct strings
RECURSIVE SortStrings(_)
SortStrings(keys) ==
  IF keys = <<>> THEN <<>>
  ELSE Bind(CHOOSE k \in 1..Len(keys) : \A j \in 1..Len(keys) : j = k \/ StringLess(keys[k], keys[j]),
            LAMBDA i : <<keys[i]>>
                         \o SortStrings(SubSeq(keys, 1, i - 1) \o SubSeq(keys, i + 1, Len(keys))))

isSearchCommand(command) ==
  LET cmdLower == ToLowerCase(command)
  IN  \E sc \in {<<"g", "r", "e", "p">>, <<"r", "g">>, <<"a", "g">>, <<"a", "c", "k">>, <<"f", "i", "n", "d">>} : Includes(cmdLower, sc)

\* the SearchResult pushed for a line that matched with m (search.ts:30-34, 41-45)
GrepResult(line, m) ==
  [isNull |-> FALSE, file |-> Group(line, m, 1),
   lineNumber |-> ParseInt(Group(line, m, 3)), content |-> Group(line, m, 5)]

\* the record parseGrepResults makes of one line, isNull when the line gives none
parseGrepLine(line) ==
  IF Trim(line) = <<>> THEN [isNull |-> TRUE, file |-> <<>>, lineNumber |-> 0, content |-> <<>>]
  ELSE
    Bind(MatchItems(line, 1, <<Dots(1), Lit(<<":">>), Rep(Digit, 1), Lit(<<":">>), Dots(0), End>>),
         LAMBDA match :
           IF match.ok THEN GrepResult(line, match)
           ELSE Bind(MatchItems(line, 1, <<Dots(1), Lit(<<"-">>), Rep(Digit, 1), Lit(<<"-">>),
                                           Dots(0), End>>),
                     LAMBDA altMatch :
                       IF altMatch.ok THEN GrepResult(line, altMatch)
                       ELSE [isNull |-> TRUE, file |-> <<>>, lineNumber |-> 0, content |-> <<>>]))

parseGrepResults(output_) ==
  Bind(Split(output_, "\n"),
       LAMBDA lines : SelectSeq([k \in 1..Len(lines) |-> parseGrepLine(lines[k])],
                                LAMBDA r : ~r.isNull))

\* the file loop of groupSearchResults with maxResults = 30 and maxPerFile = 10
\* (search.ts:97-120): the lines pushed and the number of matches shown
RECURSIVE SearchFileLines(_, _, _)
SearchFileLines(files, results, shown) ==
  IF files = <<>> \/ shown >= 30 THEN [lines |-> <<>>, shown |-> shown]
  ELSE
    Bind(SelectSeq(results, LAMBDA r : r.file = files[1]), LAMBDA matches :
    Bind(SearchFileLines(Tail(files), results, shown + Min(10, Len(matches))), LAMBDA rest :
      [lines |->
         <<<<"U+D83D", "U+DCC4", " ">> \o compactPath(files[1]) \o <<" ", "(">> \o NumToStr(Len(matches)) \o <<" ", "m", "a", "t", "c", "h", "e", "s", ")", ":">>>>
         \o [k \in 1..Min(10, Len(matches)) |->
               <<" ", " ", " ", " ">> \o NumToStr(matches[k].lineNumber) \o <<":", " ">>
                 \o Bind(Trim(matches[k].content),
                         LAMBDA content : IF Len(content) > 70
                                          THEN Slice(content, 0, 67) \o <<".", ".", ".">> ELSE content)]
         \o (IF Len(matches) > 10
             THEN <<<<" ", " ", "+">> \o NumToStr(Len(matches) - 10) \o <<" ", "m", "o", "r", "e">>>> ELSE <<>>)
         \o <<<<>>>>
         \o rest.lines,
       shown |-> rest.shown]))

\* the summary built from the parsed results (search.ts:91-126)
SearchReport(results, files) ==
  Bind(SearchFileLines(files, results, 0), LAMBDA body :
    Some(Join(
      <<<<"U+D83D", "U+DD0D", " ">> \o NumToStr(Len(results)) \o <<" ", "m", "a", "t", "c", "h", "e", "s", " ", "i", "n", " ">> \o NumToStr(Len(files)) \o <<" ", "f", "i", "l", "e", "s", ":", "\n">>>>
      \o body.lines
      \o (IF body.shown < Len(results)
          THEN <<<<".", ".", ".", " ", "+">> \o NumToStr(Len(results) - body.shown) \o <<" ", "m", "o", "r", "e", " ", "m", "a", "t", "c", "h", "e", "s">>>>
          ELSE <<>>),
      <<"\n">>)))

groupSearchResults(output_) ==
  IF ~Includes(output_, <<":">>) \/ Len(output_) < 50 THEN Null
  ELSE Bind(parseGrepResults(output_),
            LAMBDA results :
              IF Len(results) = 0 THEN Null
              ELSE SearchReport(results,
                     SortStrings(Bind(Tally([k \in 1..Len(results) |-> results[k].file]),
                                      LAMBDA byFile : [k \in 1..Len(byFile) |-> byFile[k].key]))))

(***************************************************************************)
(* Source code filtering (src/src/techniques/source.ts).                   *)
(***************************************************************************)
\* LANGUAGE_EXTENSIONS[ext] || 'unknown'
LanguageOfExtension(ext) ==
  CASE ext \in {<<".", "t", "s">>, <<".", "t", "s", "x">>} -> "typescript"
    [] ext \in {<<".", "j", "s">>, <<".", "j", "s", "x">>, <<".", "m", "j", "s">>} -> "javascript"
    [] ext \in {<<".", "p", "y">>, <<".", "p", "y", "w">>} -> "python"
    [] ext = <<".", "r", "s">> -> "rust"
    [] ext = <<".", "g", "o">> -> "go"
    [] ext = <<".", "j", "a", "v", "a">> -> "java"
    [] ext \in {<<".", "c">>, <<".", "h">>} -> "c"
    [] ext \in {<<".", "c", "p", "p">>, <<".", "h", "p", "p">>, <<".", "c", "c">>} -> "cpp"
    [] OTHER -> "unknown"

\* filePath.slice(filePath.lastIndexOf('.')): slice(-1) is the last code unit
detectLanguage(filePath) ==
  LET dot == LastIndexOf(filePath, ".")
      ext == IF dot >= 0 THEN SliceFrom(filePath, dot)
             ELSE SubSeq(filePath, Len(filePath), Len(filePath))
  IN  LanguageOfExtension(ToLowerCase(ext))

\* COMMENT_PATTERNS[language]; <<>> stands for an absent pattern
COMMENT_PATTERNS(language) ==
  IF language = "python"
    THEN [line |-> <<"#">>, blockStart |-> <<>>, blockEnd |-> <<>>, docComment |-> <<"\"", "\"", "\"">>]
  ELSE IF language = "rust"
    THEN [line |-> <<"/", "/">>, blockStart |-> <<"/", "*">>, blockEnd |-> <<"*", "/">>, docComment |-> <<"/", "/", "/">>]
  ELSE IF language = "unknown"
    THEN [line |-> <<>>, blockStart |-> <<>>, blockEnd |-> <<>>, docComment |-> <<>>]
  ELSE [line |-> <<"/", "/">>, blockStart |-> <<"/", "*">>, blockEnd |-> <<"*", "/">>, docComment |-> <<>>]

\* one iteration of the line loop of filterMinimal (source.ts:68-118)
MinimalLine(st, line, language) ==
  LET patterns == COMMENT_PATTERNS(language)
      trimmed == Trim(line)
      keep == [st EXCEPT !.result = Append(@, line)]
      inBlock == st.inBlockComment
                   \/ (patterns.blockStart # <<>> /\ StartsWith(trimmed, patterns.blockStart))
      commentIndex == IndexOf(line, patterns.line)
      code == TrimEnd(Slice(line, 0, commentIndex))
  IN  IF language = "python" /\ StartsWith(trimmed, patterns.docComment)
        THEN [keep EXCEPT !.inDocstring = ~st.inDocstring]
      ELSE IF language = "python" /\ st.inDocstring THEN keep
      ELSE IF inBlock
        THEN [st EXCEPT !.inBlockComment = ~EndsWith(trimmed, patterns.blockEnd)]
      ELSE IF patterns.line # <<>> /\ commentIndex >= 0
        THEN IF language = "rust" /\ StartsWith(trimmed, <<"/", "/", "/">>) THEN keep
             ELSE [st EXCEPT !.result = Append(@, code)]
      ELSE keep

RECURSIVE MinimalScan(_, _, _, _)
MinimalScan(lines, i, st, language) ==
  IF i > Len(lines) \/ st # st THEN st
  ELSE MinimalScan(lines, i + 1, MinimalLine(st, lines[i], language), language)

\* s.replace(/\n{3,}/g, '\n\n')
RECURSIVE CollapseNewlines(_, _)
CollapseNewlines(s, i) ==
  LET starts == {j \in i..(Len(s) - 2) : s[j] = "\n" /\ s[j + 1] = "\n" /\ s[j + 2] = "\n"}
      first == CHOOSE j \in starts : \A k \in starts : j <= k
  IN  IF starts = {} THEN SubSeq(s, i, Len(s))
      ELSE SubSeq(s, i, first - 1) \o <<"\n", "\n">>
             \o CollapseNewlines(s, first + SpanIn(s, first, {"\n"}))

filterMinimal(content, language) ==
  IF language = "unknown" THEN content
  ELSE LET st == MinimalScan(Split(content, "\n"), 1,
                   [result |-> <<>>, inBlockComment |-> FALSE, inDocstring |-> FALSE], language)
       IN  Trim(CollapseNewlines(Join(st.result, <<"\n">>), 1))

\* the declaration keywords of signaturePattern and of IMPORTANT_PATTERNS[1]
SignatureKeywords ==
  <<<<"f", "n">>, <<"d", "e", "f">>, <<"f", "u", "n", "c", "t", "i", "o", "n">>, <<"f", "u", "n", "c">>, <<"c", "l", "a", "s", "s">>, <<"s", "t", "r", "u", "c", "t">>, <<"e", "n", "u", "m">>, <<"t", "r", "a", "i", "t">>,
    <<"i", "n", "t", "e", "r", "f", "a", "c", "e">>, <<"t", "y", "p", "e">>>>

\* /^(?:pub\s+)?(?:async\s+)?(?:fn|def|...|type)\s+\w+/.test(trimmed)
MatchesSignature(trimmed) ==
  \E pub \in {<<>>, <<Lit(<<"p", "u", "b">>), Rep(Whitespace, 1)>>} :
    \E async \in {<<>>, <<Lit(<<"a", "s", "y", "n", "c">>), Rep(Whitespace, 1)>>} :
      MatchItems(trimmed, 1, pub \o async
                   \o <<Alt(SignatureKeywords), Rep(Whitespace, 1), Rep(WordChar, 1)>>).ok

\* /^(?:export\s+|module\s+|pub\s+)/.test(trimmed)
MatchesExport(trimmed) ==
  MatchItems(trimmed, 1, <<Alt(<<<<"e", "x", "p", "o", "r", "t">>, <<"m", "o", "d", "u", "l", "e">>, <<"p", "u", "b">>>>), Rep(Whitespace, 1)>>).ok

\* /^(?:use |import |from |require\(|#include|const .*= require\(|package |import\()/
MatchesImport(trimmed) ==
  \/ \E p \in {<<"u", "s", "e", " ">>, <<"i", "m", "p", "o", "r", "t", " ">>, <<"f", "r", "o", "m", " ">>, <<"r", "e", "q", "u", "i", "r", "e", "(">>, <<"#", "i", "n", "c", "l", "u", "d", "e">>, <<"p", "a", "c", "k", "a", "g", "e", " ">>,
               <<"i", "m", "p", "o", "r", "t", "(">>} : StartsWith(trimmed, p)
  \/ MatchItems(trimmed, 1, <<Lit(<<"c", "o", "n", "s", "t", " ">>), Dots(0), Lit(<<"=", " ", "r", "e", "q", "u", "i", "r", "e", "(">>)>>).ok

\* (s.match(/c/g) || []).length
CountOf(s, c) == Len(SelectSeq(s, LAMBDA x : x = c))

\* one iteration of the line loop of filterAggressive (source.ts:147-200)
AggressiveLine(st, line) ==
  LET trimmed == Trim(line)
      keep == [st EXCEPT !.result = Append(@, line)]
      depth == st.braceDepth + CountOf(trimmed, "{") - CountOf(trimmed, "}")
      opened == IF EndsWith(trimmed, <<"{">>) THEN Append(st.result, <<" ", " ", " ", " ", "/", "/", " ", ".", ".", ".">>) ELSE st.result
      closes == depth <= 0 /\ trimmed = <<"}">>
  IN  IF trimmed = <<>> THEN st
      ELSE IF MatchesImport(trimmed) \/ MatchesExport(trimmed) THEN keep
      ELSE IF MatchesSignature(trimmed)
        THEN [keep EXCEPT !.inImplementation = TRUE, !.braceDepth = 0]
      ELSE IF st.inImplementation
        THEN [st EXCEPT !.braceDepth = depth,
                        !.result = IF closes THEN Append(opened, line) ELSE opened,
                        !.inImplementation = ~closes]
      ELSE IF \E p \in {<<"c", "o", "n", "s", "t", " ">>, <<"s", "t", "a", "t", "i", "c", " ">>, <<"l", "e", "t", " ">>, <<"p", "u", "b", " ", "c", "o", "n", "s", "t", " ">>, <<"p", "u", "b", " ", "s", "t", "a", "t", "i", "c", " ">>,
                        <<"t", "y", "p", "e", " ">>} : StartsWith(trimmed, p)
        THEN keep
      ELSE st

RECURSIVE AggressiveScan(_, _, _)
AggressiveScan(lines, i, st) ==
  IF i > Len(lines) \/ st # st THEN st ELSE AggressiveScan(lines, i + 1, AggressiveLine(st, lines[i]))

filterAggressive(content, language) ==
  IF language = "unknown" THEN filterMinimal(content, language)
  ELSE Trim(Join(AggressiveScan(Split(filterMinimal(content, language), "\n"), 1,
                   [result |-> <<>>, braceDepth |-> 0, inImplementation |-> FALSE]).result,
                 <<"\n">>))


\* IMPORTANT_PATTERNS.some((p) => p.test(line.trim()))
isImportantLine(line) ==
  Bind(Trim(line), LAMBDA trimmed :
    \/ \E p \in {<<"u", "s", "e", " ">>, <<"i", "m", "p", "o", "r", "t", " ">>, <<"f", "r", "o", "m", " ">>, <<"#", "i", "n", "c", "l", "u", "d", "e">>, <<"p", "a", "c", "k", "a", "g", "e", " ">>} :
         StartsWith(trimmed, p)
    \/ MatchItems(trimmed, 1, <<Lit(<<"c", "o", "n", "s", "t", " ">>), Dots(0), Lit(<<"=", " ", "r", "e", "q", "u", "i", "r", "e">>)>>).ok
    \/ MatchesSignature(trimmed)
    \/ StartsWith(trimmed, <<"{">>) \/ EndsWith(trimmed, <<"}">>)
    \/ MatchItems(trimmed, 1, <<Alt(<<<<"e", "x", "p", "o", "r", "t">>, <<"m", "o", "d", "u", "l", "e">>, <<"p", "u", "b">>>>), Rep(Whitespace, 1)>>).ok)

\* the for loop of smartTruncate (source.ts:228-244); i is the 0-based index
RECURSIVE SmartScan(_, _, _, _)
SmartScan(lines, i, st, maxLines) ==
  IF ~(i < Len(lines) /\ st.keptLines < maxLines - 1) THEN st
  ELSE LET line == lines[i + 1]
           marker == <<" ", " ", " ", " ", "/", "/", " ", ".", ".", ".", " ">> \o NumToStr(i - Len(st.result)) \o <<" ", "l", "i", "n", "e", "s", " ", "o", "m", "i", "t", "t", "e", "d">>
           before == IF st.skippedSection THEN Append(st.result, marker) ELSE st.result
       IN  IF isImportantLine(line) \/ 2 * st.keptLines < maxLines
             THEN SmartScan(lines, i + 1,
                    [result |-> Append(before, line), keptLines |-> st.keptLines + 1,
                     skippedSection |-> FALSE], maxLines)
           ELSE SmartScan(lines, i + 1, [st EXCEPT !.skippedSection = TRUE], maxLines)

smartTruncate(content, maxLines) ==
  Bind(Split(content, "\n"), LAMBDA lines :
    IF Len(lines) <= maxLines THEN content
    ELSE Bind(SmartScan(lines, 0, [result |-> <<>>, keptLines |-> 0, skippedSection |-> FALSE],
                        maxLines).result,
              LAMBDA result_ :
                Join(IF Len(result_) < Len(lines)
                     THEN Append(result_, <<"/", "/", " ", ".", ".", ".", " ">> \o NumToStr(Len(lines) - Len(result_))
                                            \o <<" ", "m", "o", "r", "e", " ", "l", "i", "n", "e", "s", " ", "(", "t", "o", "t", "a", "l", ":", " ">> \o NumToStr(Len(lines)) \o <<")">>)
                     ELSE result_,
                     <<"\n">>)))


(***************************************************************************)
(* The plugin instance and its tool.execute.after hook (src/src/plugin.ts).*)
(***************************************************************************)
\* how many boolean technique flags a configuration may set away from
\* "all on" or from "all off"
MaxFlipped == 1

TechniqueFlags ==
  {"ansiStripping", "truncation", "smartTruncation", "testOutputAggregation",
   "buildOutputFiltering", "gitCompaction", "searchResultGrouping", "linterAggregation"}

\* the numeric limits and the logSavings switch tried: the defaults, a tight
\* budget without logging, and the smallest limits
Profiles ==
  {[maxChars |-> 10000, maxLines |-> 200, logSavings |-> TRUE],
   [maxChars |-> 10, maxLines |-> 4, logSavings |-> FALSE],
   [maxChars |-> 2, maxLines |-> 0, logSavings |-> TRUE]}

\* an RtkConfig with the flags of `on` set, as loadConfig can return it
RtkConfig(on, level, profile) ==
  [enabled |-> TRUE,
   logSavings |-> profile.logSavings,
   showUpdateEvery |-> 10,
   techniques |->
     [ansiStripping |-> "ansiStripping" \in on,
      truncation |-> [enabled |-> "truncation" \in on, maxChars |-> profile.maxChars],
      sourceCodeFiltering |-> level,
      smartTruncation |-> [enabled |-> "smartTruncation" \in on, maxLines |-> profile.maxLines],
      testOutputAggregation |-> "testOutputAggregation" \in on,
      buildOutputFiltering |-> "buildOutputFiltering" \in on,
      gitCompaction |-> "gitCompaction" \in on,
      searchResultGrouping |-> "searchResultGrouping" \in on,
      linterAggregation |-> "linterAggregation" \in on]]

Configs ==
  {RtkConfig(on, level, profile) :
     on \in {s \in SUBSET TechniqueFlags :
               \/ Cardinality(s) <= MaxFlipped
               \/ Cardinality(TechniqueFlags \ s) <= MaxFlipped},
     level \in {"none", "minimal", "aggressive"},
     profile \in Profiles}

\* a JavaScript value that is either a string or not a string at all
Str(t) == Some(t)
NotAString == Null
Truthy(v) == ~v.isNull /\ v.text # <<>>

Invocation(tool, command, filePath, sessionID, sessionId, out) ==
  [tool |-> tool, args |-> [command |-> command, filePath |-> filePath],
   sessionID |-> sessionID, sessionId |-> sessionId, output |-> out]

Bash(command, out) == Invocation("bash", Str(command), NotAString, Str(<<"s", "1">>), NotAString, Str(out))
Read(filePath, out) == Invocation("read", NotAString, Str(filePath), Str(<<"s", "1">>), NotAString, Str(out))


\* the invocations tried: every tool kind, every command table, every language
\* case, outputs the guard rejects, and every shape of the session fields
Invocations ==
  { Bash(<<"c", "a", "r", "g", "o", " ", "b", "u", "i", "l", "d">>, <<" ", " ", " ", "C", "o", "m", "p", "i", "l", "i", "n", "g", " ", "a", "p", "p", " ", "v", "0", ".", "1", ".", "0", "\n", "e", "r", "r", "o", "r", "[", "E", "0", "3", "0", "8", "]", ":", " ", "m", "i", "s", "m", "a", "t", "c", "h", "e", "d", " ", "t", "y", "p", "e", "s", "\n", " ", " ", "-", "-", ">", " ", "s", "r", "c", "/", "m", "a", "i", "n", ".", "r", "s", ":", "1", "0", ":", "5", "\n">>),
    Bash(<<"c", "a", "r", "g", "o", " ", "b", "u", "i", "l", "d">>, <<" ", " ", " ", "C", "o", "m", "p", "i", "l", "i", "n", "g", " ", "a", "p", "p", " ", "v", "0", ".", "1", ".", "0", "\n", " ", " ", " ", " ", "F", "i", "n", "i", "s", "h", "e", "d", " ", "d", "e", "v", " ", "t", "a", "r", "g", "e", "t", "(", "s", ")", " ", "i", "n", " ", "0", ".", "5", "s", "\n">>),
    Bash(<<"m", "a", "k", "e", " ", "a", "l", "l">>, <<"ESC", "[", "3", "1", "m", "e", "r", "r", "o", "r", "ESC", "[", "0", "m", ":", " ", "l", "i", "n", "k", "i", "n", "g", " ", "f", "a", "i", "l", "e", "d", "\n", " ", " ", "c", "o", "u", "l", "d", " ", "n", "o", "t", " ", "f", "i", "n", "d", " ", "l", "d", "\n", "\n", "\n", "w", "a", "r", "n", "i", "n", "g", ":", " ", "u", "n", "u", "s", "e", "d", " ", "v", "a", "r", "i", "a", "b", "l", "e", "\n">>),
    Bash(<<"c", "a", "r", "g", "o", " ", "t", "e", "s", "t">>, <<"r", "u", "n", "n", "i", "n", "g", " ", "2", " ", "t", "e", "s", "t", "s", "\n", "t", "e", "s", "t", " ", "a", " ", ".", ".", ".", " ", "o", "k", "\n", "t", "e", "s", "t", " ", "b", " ", ".", ".", ".", " ", "F", "A", "I", "L", "E", "D", "\n", "\n", "t", "e", "s", "t", " ", "r", "e", "s", "u", "l", "t", ":", " ", "F", "A", "I", "L", "E", "D", ".", " ", "1", " ", "p", "a", "s", "s", "e", "d", ";", " ", "1", " ", "f", "a", "i", "l", "e", "d", ";", " ", "0", " ", "i", "g", "n", "o", "r", "e", "d", "\n">>),
    Bash(<<"n", "p", "x", " ", "j", "e", "s", "t">>, <<"T", "e", "s", "t", "s", ":", " ", "3", " ", "p", "a", "s", "s", "e", "d", ",", " ", "3", " ", "t", "o", "t", "a", "l", "\n">>),
    Bash(<<"n", "p", "x", " ", "e", "s", "l", "i", "n", "t", " ", "s", "r", "c">>, <<"s", "r", "c", "/", "a", ".", "t", "s", ":", "1", ":", "2", ":", " ", "e", "r", "r", "o", "r", " ", "U", "n", "e", "x", "p", "e", "c", "t", "e", "d", " ", "v", "a", "r", " ", "n", "o", "-", "v", "a", "r", "\n", "s", "r", "c", "/", "a", ".", "t", "s", ":", "3", ":", "1", ":", " ", "w", "a", "r", "n", "i", "n", "g", " ", "M", "i", "s", "s", "i", "n", "g", " ", "s", "e", "m", "i", " ", "s", "e", "m", "i", "\n">>),
    Bash(<<"g", "i", "t", " ", "s", "t", "a", "t", "u", "s">>, <<"M", " ", " ", "s", "r", "c", "/", "f", "i", "l", "e", ".", "t", "s", "\n", "?", "?", " ", "x", "\n">>),
    Bash(<<"g", "i", "t", " ", "d", "i", "f", "f">>, <<"d", "i", "f", "f", " ", "-", "-", "g", "i", "t", " ", "a", "/", "f", ".", "t", "s", " ", "b", "/", "f", ".", "t", "s", "\n", "@", "@", " ", "-", "1", ",", "2", " ", "+", "1", ",", "2", " ", "@", "@", "\n", "-", " ", "o", "l", "d", "\n", "+", " ", "n", "e", "w", "\n", " ", "c", "t", "x", "\n">>),
    Bash(<<"g", "i", "t", " ", "l", "o", "g">>, <<"c", "o", "m", "m", "i", "t", " ", "a", "b", "c", "\n", "A", "u", "t", "h", "o", "r", ":", " ", "a", "\n", "\n", " ", " ", " ", " ", "m", "s", "g", "\n">>),
    Bash(<<"g", "r", "e", "p", " ", "-", "r", "n", " ", "c", "o", "n", "s", "t", " ", "s", "r", "c">>, <<"s", "r", "c", "/", "f", "i", "l", "e", "1", ".", "t", "s", ":", "1", "0", ":", "c", "o", "n", "s", "t", " ", "x", " ", "=", " ", "1", ";", "\n", "s", "r", "c", "/", "f", "i", "l", "e", "1", ".", "t", "s", ":", "2", "0", ":", "c", "o", "n", "s", "t", " ", "y", " ", "=", " ", "2", ";", "\n", "s", "r", "c", "/", "f", "i", "l", "e", "2", ".", "t", "s", ":", "5", ":", "c", "o", "n", "s", "t", " ", "z", " ", "=", " ", "3", ";">>),
    Bash(<<"c", "a", "t", " ", "t", "o", "d", "o", ".", "m", "d">>, <<"t", "o", "d", "o", ".", "m", "d", ":", "1", ":", "b", "u", "y", " ", "m", "i", "l", "k", " ", "a", "n", "d", " ", "e", "g", "g", "s", " ", "t", "o", "m", "o", "r", "r", "o", "w", "\n", "t", "o", "d", "o", ".", "m", "d", ":", "2", ":", "c", "a", "l", "l", " ", "t", "h", "e", " ", "b", "a", "n", "k", " ", "a", "b", "o", "u", "t", " ", "t", "h", "e", " ", "c", "a", "r", "d", "\n">>),
    Bash(<<"l", "s">>, <<"a", ".", "t", "x", "t", "\n", "b", ".", "t", "x", "t">>),
    Bash(<<"e", "c", "h", "o", " ", "o", "k">>, <<"ESC", "[", "3", "2", "m", "o", "k", " ", "ESC", "[", "0", "m", "d", "o", "n", "e">>),
    Bash(<<"p", "r", "i", "n", "t", "f", " ", ".", ".", ".">>, <<"ESC", "[", "0", "m", ".", ".", ".">>),
    Bash(<<>>, <<"ESC", "[", "3", "2", "m", "o", "k", " ", "ESC", "[", "0", "m", "d", "o", "n", "e">>),
    Invocation("bash", NotAString, NotAString, Str(<<"s", "1">>), NotAString, Str(<<"ESC", "[", "3", "2", "m", "o", "k", " ", "ESC", "[", "0", "m", "d", "o", "n", "e">>)),
    Invocation("bash", Str(<<"e", "c", "h", "o", " ", "o", "k">>), NotAString, NotAString, Str(<<"s", "2">>), Str(<<"ESC", "[", "3", "2", "m", "o", "k", " ", "ESC", "[", "0", "m", "d", "o", "n", "e">>)),
    Invocation("bash", Str(<<"e", "c", "h", "o", " ", "o", "k">>), NotAString, Str(<<>>), Str(<<"s", "2">>), Str(<<"ESC", "[", "3", "2", "m", "o", "k", " ", "ESC", "[", "0", "m", "d", "o", "n", "e">>)),
    Invocation("bash", Str(<<"e", "c", "h", "o", " ", "o", "k">>), NotAString, NotAString, NotAString, Str(<<"ESC", "[", "3", "2", "m", "o", "k", " ", "ESC", "[", "0", "m", "d", "o", "n", "e">>)),
    Invocation("bash", Str(<<"e", "c", "h", "o", " ", "o", "k">>), NotAString, Str(<<>>), NotAString, Str(<<"ESC", "[", "3", "2", "m", "o", "k", " ", "ESC", "[", "0", "m", "d", "o", "n", "e">>)),
    Read(<<"s", "r", "c", "/", "a", ".", "t", "s">>, <<"/", "/", " ", "h", "e", "a", "d", "e", "r", "\n", "i", "m", "p", "o", "r", "t", " ", "a", " ", "f", "r", "o", "m", " ", "'", "a", "'", ";", "\n", "f", "u", "n", "c", "t", "i", "o", "n", " ", "f", "(", ")", " ", "{", "\n", " ", " ", "r", "e", "t", "u", "r", "n", " ", "1", ";", " ", "/", "/", " ", "o", "n", "e", "\n", "}", "\n", "c", "o", "n", "s", "t", " ", "k", " ", "=", " ", "2", ";", "\n">>),
    Read(<<"s", "r", "c", "/", "b", ".", "t", "s">>, <<"l", "e", "t", " ", "a", " ", "=", " ", "1", ";", "\n", "l", "e", "t", " ", "b", " ", "=", " ", "2", ";", "\n", "l", "e", "t", " ", "c", " ", "=", " ", "3", ";", "\n", "l", "e", "t", " ", "d", " ", "=", " ", "4", ";", "\n", "l", "e", "t", " ", "e", " ", "=", " ", "5", ";", "\n", "l", "e", "t", " ", "f", " ", "=", " ", "6", ";">>),
    Read(<<"t", "o", "o", "l", ".", "p", "y">>, <<"ESC", "[", "0", "m", "/", "/", " ", ".", ".", ".", " ", "1", " ", "m", "o", "r", "e", " ", "l", "i", "n", "e", "s", " ", "(", "t", "o", "t", "a", "l", ":", " ", "1", ")">>),
    Read(<<"n", "o", "t", "e", "s", ".", "t", "x", "t">>, <<"o", "n", "e", " ", "/", "/", " ", "1", "\n", "t", "w", "o", "\n", "t", "h", "r", "e", "e", "\n", "f", "o", "u", "r", "\n", "f", "i", "v", "e", "\n", "s", "i", "x">>),
    Read(<<>>, <<"/", "/", " ", "h", "e", "a", "d", "e", "r", "\n", "l", "e", "t", " ", "a", " ", "=", " ", "1", ";">>),
    Invocation("read", NotAString, Str(<<"s", "r", "c", "/", "b", ".", "t", "s">>), NotAString, NotAString, Str(<<"/", "/", " ", "c", "\n", "l", "e", "t", " ", "a", " ", "=", " ", "1", ";">>)),
    Invocation("edit", NotAString, Str(<<"s", "r", "c", "/", "a", ".", "t", "s">>), Str(<<"s", "1">>), NotAString, Str(<<"o", "k">>)),
    Invocation("edit", NotAString, Str(<<"s", "r", "c", "/", "a", ".", "t", "s">>), NotAString, Str(<<"s", "2">>), Str(<<"/", "/", " ", "a", "p", "p", "l", "i", "e", "d", "\n", "a", "b", "c", "d", "e", "f", "g", "h", "i", "j", " ", "k", "l", "m", "n", "o", "p", "q", "r", "s", "t">>)),
    Invocation("edit", NotAString, NotAString, Str(<<"s", "1">>), NotAString, Str(<<"ESC", "[", "0", "m", "h", "e", "l", "l", "o", " ", "w", "\n", ".", ".", ".", " ", "[", "t", "r", "u", "n", "c", "a", "t", "e", "d", ":", " ", "3", "4", " ", "c", "h", "a", "r", "s", " ", "o", "m", "i", "t", "t", "e", "d", "]">>)),
    Invocation("edit", Str(<<"g", "i", "t", " ", "s", "t", "a", "t", "u", "s">>), NotAString, NotAString, NotAString, Str(<<"a", "b", "c", "d", "e", "f", "g", "h", "i", "j", " ", "k", "l", "m", "n", "o", "p", "q", "r", "s", "t">>)),
    Invocation("task", NotAString, NotAString, Str(<<"s", "1">>), NotAString, Str(<<>>)),
    Invocation("task", NotAString, NotAString, Str(<<"s", "1">>), NotAString, NotAString) }


\* resolveSessionID(input): a string id, or Null
resolveSessionID(value) ==
  IF Truthy(value.sessionID) THEN value.sessionID
  ELSE IF Truthy(value.sessionId) THEN value.sessionId
  ELSE Null

\* the savings cut off after the second decimal instead of rounded
savingsPercentTruncated(originalChars, filteredChars) ==
  IF originalChars > 0
  THEN (10000 * (originalChars - filteredChars)) \div originalChars
  ELSE 0

\* Math.round(((originalChars - filteredChars) / originalChars) * 100 * 100) / 100,
\* kept in hundredths of a percent; Math.round rounds a half upwards
savingsPercent(originalChars, filteredChars) ==
  IF originalChars > 0
  THEN (2 * 10000 * (originalChars - filteredChars) + originalChars) \div (2 * originalChars)
  ELSE 0

\* input.tool === 'bash' && toolArgs.args?.command
BashGate == input.tool = "bash" /\ Truthy(input.args.command)

\* input.tool === 'read' && toolArgs.args?.filePath
ReadGate == input.tool = "read" /\ Truthy(input.args.filePath)

\* a source gate that lets files of an unknown language through
SourceGateAnyLanguage ==
  /\ ReadGate
  /\ config.techniques.sourceCodeFiltering # "none"

\* language !== 'unknown' && config.techniques.sourceCodeFiltering !== 'none'
SourceGate ==
  /\ ReadGate
  /\ detectLanguage(input.args.filePath.text) # "unknown"
  /\ config.techniques.sourceCodeFiltering # "none"

\* a stage that takes a null result for a text
KeepIgnoresNull(filtered, label, next) ==
  LET changed == filtered.text # result
  IN  /\ result' = IF changed THEN filtered.text ELSE result
      /\ technique' = IF changed THEN Append(technique, label) ELSE technique
      /\ pc' = next
      /\ error' = error

\* what a stage does with the text a filter hands back
Keep(filtered, label, next) ==
  LET changed == ~filtered.isNull /\ filtered.text # result
  IN  /\ result' = IF changed THEN filtered.text ELSE result
      /\ technique' = IF changed THEN Append(technique, label) ELSE technique
      /\ pc' = next
      /\ error' = error

Skip(next) == pc' = next /\ UNCHANGED <<result, technique, error>>

\* the filter throws: control passes to the catch clause
Throw(stage) == pc' = "catch" /\ error' = stage /\ UNCHANGED <<result, technique>>

\* a stage of the try block that runs `filtered` when `gate` holds
Stage(at, gate, filtered, label, next) ==
  /\ pc = at
  /\ IF gate THEN Keep(filtered, label, next) \/ Throw(label) ELSE Skip(next)
  /\ UNCHANGED <<config, input, output, original, sessionMetrics, appLog, metricsFile,
                 fnArgs, fnRet,
                 idleTurnCounts, toasts, idleEvents, thrown, tasks>>

\* the guard of the handler and the three declarations after it
Guard ==
  /\ pc = "start"
  /\ IF Truthy(input.output)
       THEN /\ original' = input.output.text
            /\ result' = input.output.text
            /\ technique' = <<>>
            /\ pc' = "ansi"
       ELSE pc' = "done" /\ UNCHANGED <<original, result, technique>>
  /\ UNCHANGED <<config, input, output, error, sessionMetrics, appLog, metricsFile,
                 fnArgs, fnRet,
                 idleTurnCounts, toasts, idleEvents, thrown, tasks>>

AnsiStage ==
  Stage("ansi", config.techniques.ansiStripping,
        Some(stripAnsiFast(result)), "ansi-stripping", "build")

\* a build stage handed the original text instead of the previous stage's
BuildStageOnOriginal ==
  Stage("build", BashGate /\ config.techniques.buildOutputFiltering,
        filterBuildOutput(original, input.args.command.text), "build-filter", "test")

\* build output filtering on the text of the stage before (plugin.ts:155-161)
BuildStage ==
  Stage("build", BashGate /\ config.techniques.buildOutputFiltering,
        filterBuildOutput(result, input.args.command.text), "build-filter", "test")

TestStage ==
  Stage("test", BashGate /\ config.techniques.testOutputAggregation,
        aggregateTestOutput(result, input.args.command.text), "test-aggregate", "linter")

LinterStage ==
  Stage("linter", BashGate /\ config.techniques.linterAggregation,
        aggregateLinterOutput(result, input.args.command.text), "linter-aggregate", "git")

GitStage ==
  Stage("git", BashGate /\ config.techniques.gitCompaction,
        compactGitOutput(result, input.args.command.text), "git-compact", "search")

SearchStage ==
  Stage("search", BashGate /\ config.techniques.searchResultGrouping,
        groupSearchResults(result), "search-group", "source")

SourceStage ==
  LET language == detectLanguage(input.args.filePath.text)
  IN  IF config.techniques.sourceCodeFiltering = "aggressive"
      THEN Stage("source", SourceGate, Some(filterAggressive(result, language)),
                 "source-aggressive", "smart")
      ELSE Stage("source", SourceGate, Some(filterMinimal(result, language)),
                 "source-minimal", "smart")

\* the label is appended whenever smartTruncate was called (plugin.ts:225-228)
SmartStage ==
  LET maxLines == config.techniques.smartTruncation.maxLines
      runs == /\ SourceGate
              /\ config.techniques.smartTruncation.enabled
              /\ Len(Split(result, "\n")) > maxLines
  IN  /\ pc = "smart"
      /\ IF runs
           THEN \/ /\ result' = smartTruncate(result, maxLines)
                   /\ technique' = Append(technique, "smart-truncate")
                   /\ pc' = "truncate"
                   /\ error' = error
                \/ Throw("smart-truncate")
           ELSE Skip("truncate")
      /\ UNCHANGED <<config, input, output, original, sessionMetrics, appLog, metricsFile,
                     fnArgs, fnRet,
                     idleTurnCounts, toasts, idleEvents, thrown, tasks>>

\* the label is appended whenever truncate was called (plugin.ts:233-240)
TruncateStage ==
  LET maxChars == config.techniques.truncation.maxChars
      runs == config.techniques.truncation.enabled /\ Len(result) > maxChars
  IN  /\ pc = "truncate"
      /\ IF runs
           THEN \/ /\ result' = truncate(result, maxChars)
                   /\ technique' = Append(technique, "truncate")
                   /\ pc' = "record"
                   /\ error' = error
                \/ Throw("truncate")
           ELSE Skip("record")
      /\ UNCHANGED <<config, input, output, original, sessionMetrics, appLog, metricsFile,
                     fnArgs, fnRet,
                     idleTurnCounts, toasts, idleEvents, thrown, tasks>>


\* `if (result !== original)` with resolveSessionID, the assignment to
\* output.output, and recordAndLog up to sessionMetrics.push (plugin.ts:63-80)
Record ==
  LET sessionID == resolveSessionID(input)
      record == [sessionId |-> sessionID.text,
                 tool |-> input.tool,
                 technique |-> IF technique = <<>> THEN <<"unknown">> ELSE technique,
                 originalChars |-> Len(original),
                 filteredChars |-> Len(result),
                 savingsPercent |-> savingsPercent(Len(original), Len(result))]
  IN  /\ pc = "record"
      /\ IF result # original /\ ~sessionID.isNull
           THEN /\ output' = Some(result)
                /\ sessionMetrics' = Append(sessionMetrics, record)
                /\ pc' = "log"
           ELSE pc' = "done" /\ UNCHANGED <<output, sessionMetrics>>
      /\ UNCHANGED <<config, input, original, result, technique, error, appLog, metricsFile,
                     fnArgs, fnRet,
                     idleTurnCounts, toasts, idleEvents, thrown, tasks>>

\* recordAndLog: the info entry, when config.logSavings && savingsPercent > 0;
\* the awaited call may reject
LogSavings ==
  LET record == sessionMetrics[Len(sessionMetrics)]
  IN  /\ pc = "log"
      /\ IF config.logSavings /\ record.savingsPercent > 0
           THEN /\ appLog' = Append(appLog, [level |-> "info", tool |-> record.tool,
                                             technique |-> record.technique,
                                             savingsPercent |-> record.savingsPercent])
                /\ \/ pc' = "append" /\ error' = error
                   \/ pc' = "catch" /\ error' = "client.app.log"
           ELSE pc' = "append" /\ UNCHANGED <<appLog, error>>
      /\ UNCHANGED <<config, input, output, original, result, technique, sessionMetrics,
                     metricsFile, fnArgs, fnRet,
                     idleTurnCounts, toasts, idleEvents, thrown, tasks>>

\* recordAndLog: await appendMetric(record, metricsPath), which may reject
AppendMetric ==
  /\ pc = "append"
  /\ \/ /\ metricsFile' = Append(metricsFile, sessionMetrics[Len(sessionMetrics)])
        /\ pc' = "done"
        /\ error' = error
     \/ pc' = "catch" /\ error' = "appendMetric" /\ metricsFile' = metricsFile
  /\ UNCHANGED <<config, input, output, original, result, technique, sessionMetrics, appLog,
                 fnArgs, fnRet,
                 idleTurnCounts, toasts, idleEvents, thrown, tasks>>

\* a catch clause that delivers the text filtered so far
CatchDeliversPartial ==
  /\ pc = "catch"
  /\ appLog' = Append(appLog, [level |-> "warn", tool |-> input.tool, error |-> error])
  /\ thrown' \in {thrown, "client.app.log"}
  /\ output' = Some(result)
  /\ pc' = "done"
  /\ UNCHANGED <<config, input, original, result, technique, error, sessionMetrics,
                 metricsFile, fnArgs, fnRet, idleTurnCounts, toasts, idleEvents, tasks>>

\* the catch clause: `await client.app.log` of one warn entry, the output left
\* as it is; the call is not guarded, so when it rejects the hook rejects too
Catch ==
  /\ pc = "catch"
  /\ appLog' = Append(appLog, [level |-> "warn", tool |-> input.tool, error |-> error])
  /\ thrown' \in {thrown, "client.app.log"}
  /\ pc' = "done"
  /\ UNCHANGED <<config, input, output, original, result, technique, error, sessionMetrics,
                 metricsFile, fnArgs, fnRet, idleTurnCounts, toasts, idleEvents, tasks>>

DEFAULT_CONFIG ==
  RtkConfig(TechniqueFlags, "minimal", [maxChars |-> 10000, maxLines |-> 200, logSavings |-> TRUE])

\* the object without properties, {}
EmptyObject == [name \in {} |-> FALSE]

\* { ...a, ...b }: the properties of b, and those of a that b does not have
Spread(a, b) == b @@ a

\* obj.name || {}, for a property that is an object when it is present
PropertyOrEmpty(obj, name) == IF name \in DOMAIN obj THEN obj[name] ELSE EmptyObject

\* a JavaScript value read as showUpdateEvery from the parsed file: a finite
\* number, given in tenths, or a value of another type
JsNumber(tenths) == [type |-> "number", tenths |-> tenths]
JsOther(type) == [type |-> type, tenths |-> 0]
Undefined == JsOther("undefined")

\* a merge that takes any number as it is
showUpdateEveryUnchecked(base, rawShowUpdateEvery) ==
  IF rawShowUpdateEvery.type = "number"
  THEN rawShowUpdateEvery.tenths \div 10
  ELSE base.showUpdateEvery

\* const showUpdateEvery of mergeConfig (config.ts:51-55)
mergedShowUpdateEvery(base, rawShowUpdateEvery) ==
  IF rawShowUpdateEvery.type = "number" /\ rawShowUpdateEvery.tenths % 10 = 0
  THEN Max(0, rawShowUpdateEvery.tenths \div 10)
  ELSE base.showUpdateEvery

\* a merge that takes the override's truncation and smartTruncation objects whole
mergeConfigShallow(base, override) ==
  Spread(Spread(base, override),
         [showUpdateEvery |->
            mergedShowUpdateEvery(base, IF "showUpdateEvery" \in DOMAIN override
                                        THEN override.showUpdateEvery ELSE Undefined),
          techniques |-> Spread(base.techniques, PropertyOrEmpty(override, "techniques"))])

mergeConfig(base, override) ==
  Spread(Spread(base, override),
         [showUpdateEvery |->
            mergedShowUpdateEvery(base, IF "showUpdateEvery" \in DOMAIN override
                                        THEN override.showUpdateEvery ELSE Undefined),
          techniques |->
            Spread(Spread(base.techniques, PropertyOrEmpty(override, "techniques")),
                   [truncation |->
                      Spread(base.techniques.truncation,
                             PropertyOrEmpty(PropertyOrEmpty(override, "techniques"),
                                             "truncation")),
                    smartTruncation |->
                      Spread(base.techniques.smartTruncation,
                             PropertyOrEmpty(PropertyOrEmpty(override, "techniques"),
                                             "smartTruncation"))])])

\* a plugin instance right after construction receives one tool.execute.after call
Init ==
  /\ config \in Configs
  /\ input \in Invocations
  /\ output = input.output
  /\ pc = "start"
  /\ original = <<>>
  /\ result = <<>>
  /\ technique = <<>>
  /\ error = "none"
  /\ sessionMetrics = <<>>
  /\ appLog = <<>>
  /\ metricsFile = <<>>
  /\ fnArgs = <<>>
  /\ fnRet = Null
  /\ idleTurnCounts = <<>>
  /\ toasts = <<>>
  /\ idleEvents = <<>>
  /\ thrown = "none"
  /\ tasks = <<>>

Next ==
  \/ Guard
  \/ AnsiStage
  \/ BuildStage
  \/ TestStage
  \/ LinterStage
  \/ GitStage
  \/ SearchStage
  \/ SourceStage
  \/ SmartStage
  \/ TruncateStage
  \/ Record
  \/ LogSavings
  \/ AppendMetric
  \/ Catch

Spec == Init /\ [][Next]_vars

(***************************************************************************)
(* truncate as a function of its arguments (src/src/techniques/truncate.ts)*)
(***************************************************************************)
MaxTextLen == 4
MaxBudget == 10

RECURSIVE TextsUpTo(_, _)
TextsUpTo(alphabet, n) ==
  IF n = 0 THEN {<<>>}
  ELSE LET shorter == TextsUpTo(alphabet, n - 1)
       IN  shorter \cup {Append(t, c) : t \in shorter, c \in alphabet}

TruncateTexts ==
  TextsUpTo({"a", "\n"}, MaxTextLen)
    \cup {<<"h", "e", "l", "l", "o">>, <<"h", "e", "l", "l", "o", " ", "w", "o", "r", "l", "d">>, <<"h", "e", "l", "l", "o", " ", "w", "\n", ".", ".", ".", " ", "[", "t", "r", "u", "n", "c", "a", "t", "e", "d", ":", " ", "3", "4", " ", "c", "h", "a", "r", "s", " ", "o", "m", "i", "t", "t", "e", "d", "]">>}

InitTruncate ==
  /\ config = DEFAULT_CONFIG
  /\ input = Invocation("none", NotAString, NotAString, NotAString, NotAString, NotAString)
  /\ output = Null
  /\ pc = "call"
  /\ original = <<>>
  /\ result = <<>>
  /\ technique = <<>>
  /\ error = "none"
  /\ sessionMetrics = <<>>
  /\ appLog = <<>>
  /\ metricsFile = <<>>
  /\ fnArgs \in {<<text, maxChars>> : text \in TruncateTexts, maxChars \in (0 - 1)..MaxBudget}
  /\ fnRet = Null
  /\ idleTurnCounts = <<>>
  /\ toasts = <<>>
  /\ idleEvents = <<>>
  /\ thrown = "none"
  /\ tasks = <<>>

CallTruncate ==
  /\ pc = "call"
  /\ fnRet' = Some(truncate(fnArgs[1], fnArgs[2]))
  /\ pc' = "returned"
  /\ UNCHANGED <<config, input, output, original, result, technique, error, sessionMetrics,
                 appLog, metricsFile, fnArgs,
                 idleTurnCounts, toasts, idleEvents, thrown, tasks>>

SpecTruncate == InitTruncate /\ [][CallTruncate]_vars

(***************************************************************************)
(* Properties of the hook. Labels is the set of labels in the chain, and   *)
(* Replay(text, labels) is the text the stages named by labels produce     *)
(* from text when each is handed the text of the one before it.            *)
(***************************************************************************)
StageLabels ==
  {"ansi-stripping", "build-filter", "test-aggregate", "linter-aggregate", "git-compact",
   "search-group", "source-minimal", "source-aggressive", "smart-truncate", "truncate"}

BashOnlyLabels ==
  {"build-filter", "test-aggregate", "linter-aggregate", "git-compact", "search-group"}

ReadOnlyLabels == {"source-minimal", "source-aggressive", "smart-truncate"}

Labels == {technique[k] : k \in 1..Len(technique)}

\* the place of a stage in the fixed order; the two source filters share one place
StageRank(label) ==
  CASE label = "ansi-stripping" -> 1
    [] label = "build-filter" -> 2
    [] label = "test-aggregate" -> 3
    [] label = "linter-aggregate" -> 4
    [] label = "git-compact" -> 5
    [] label = "search-group" -> 6
    [] label \in {"source-minimal", "source-aggressive"} -> 7
    [] label = "smart-truncate" -> 8
    [] label = "truncate" -> 9

\* the text the stage named by label makes of text for the running invocation
LabelFilter(label, text) ==
  CASE label = "ansi-stripping" -> stripAnsiFast(text)
    [] label = "build-filter" -> filterBuildOutput(text, input.args.command.text).text
    [] label = "test-aggregate" -> aggregateTestOutput(text, input.args.command.text).text
    [] label = "linter-aggregate" -> aggregateLinterOutput(text, input.args.command.text).text
    [] label = "git-compact" -> compactGitOutput(text, input.args.command.text).text
    [] label = "search-group" -> groupSearchResults(text).text
    [] label = "source-minimal" -> filterMinimal(text, detectLanguage(input.args.filePath.text))
    [] label = "source-aggressive" -> filterAggressive(text, detectLanguage(input.args.filePath.text))
    [] label = "smart-truncate" -> smartTruncate(text, config.techniques.smartTruncation.maxLines)
    [] label = "truncate" -> truncate(text, config.techniques.truncation.maxChars)

RECURSIVE Replay(_, _)
Replay(text, labels) ==
  IF labels = <<>> THEN text ELSE Replay(LabelFilter(labels[1], text), Tail(labels))

\* the label the transition appends to the chain, "" when it appends none
AddedLabel ==
  IF Len(technique') = Len(technique) + 1 /\ SubSeq(technique', 1, Len(technique)) = technique
  THEN technique'[Len(technique')] ELSE ""

\* C1: when a filter stage throws, output.output is still the original text, no
\* MetricRecord is in the session store or in the metrics file, and once the handler
\* is done exactly one diagnostic, of level warn, was sent to client.app.log.
C1_ThrowKeepsOriginal ==
  error \in StageLabels =>
    /\ output = Some(original)
    /\ sessionMetrics = <<>>
    /\ metricsFile = <<>>
    /\ (pc = "done" => appLog = <<[level |-> "warn", tool |-> input.tool, error |-> error]>>)

\* a build filter that threw after ANSI stripping had already changed the text
C1_Witness ==
  /\ pc = "done"
  /\ error = "build-filter"
  /\ result # original
  /\ output = Some(original)
  /\ Len(appLog) = 1

\* C2: an invocation with a non-empty string output in which nothing throws ends,
\* whatever its session fields hold, with output.output replaced by the final text
\* and exactly one MetricRecord when the final text differs from the original, and
\* with output.output untouched and no record when it is equal.
C2_ChangedTextIsDelivered ==
  (pc = "done" /\ error = "none" /\ Truthy(input.output)) =>
    IF result # original
    THEN output = Some(result) /\ Len(sessionMetrics) = 1
    ELSE output = input.output /\ sessionMetrics = <<>>

\* C3: a label is only ever appended to the chain, after labels of earlier stages
\* (so none occurs twice and nothing follows truncate), and the stage that appends it
\* has produced the new text from the text of the stage before it.
C3_ChainInStageOrder ==
  [][/\ technique' # technique /\ pc # "start" => AddedLabel \in StageLabels
     /\ AddedLabel \in StageLabels =>
          /\ technique # <<>> => StageRank(technique[Len(technique)]) < StageRank(AddedLabel)
          /\ result' = LabelFilter(AddedLabel, result)
          /\ AddedLabel = "truncate" => pc' = "record"]_vars

\* a chain of three stages, hard truncation last
C3_Witness ==
  /\ pc = "done"
  /\ technique = <<"ansi-stripping", "build-filter", "truncate">>
  /\ truncate(filterBuildOutput(stripAnsiFast(original), input.args.command.text).text,
              config.techniques.truncation.maxChars) = result

\* C4: in a recorded invocation every label of the chain stands for a stage whose
\* output text differed from its input text.
C4_LabelMeansChange ==
  sessionMetrics # <<>> =>
    \A k \in 1..Len(technique) :
      Replay(original, SubSeq(technique, 1, k)) # Replay(original, SubSeq(technique, 1, k - 1))

\* the enable flag of the stage a label stands for
LabelEnabled(label) ==
  CASE label = "ansi-stripping" -> config.techniques.ansiStripping
    [] label = "build-filter" -> config.techniques.buildOutputFiltering
    [] label = "test-aggregate" -> config.techniques.testOutputAggregation
    [] label = "linter-aggregate" -> config.techniques.linterAggregation
    [] label = "git-compact" -> config.techniques.gitCompaction
    [] label = "search-group" -> config.techniques.searchResultGrouping
    [] label = "source-minimal" -> config.techniques.sourceCodeFiltering = "minimal"
    [] label = "source-aggressive" -> config.techniques.sourceCodeFiltering = "aggressive"
    [] label = "smart-truncate" -> config.techniques.smartTruncation.enabled
    [] label = "truncate" -> config.techniques.truncation.enabled

\* the stage the handler stands at is switched off
StageSwitchedOff ==
  \/ pc = "ansi" /\ ~config.techniques.ansiStripping
  \/ pc = "build" /\ ~config.techniques.buildOutputFiltering
  \/ pc = "test" /\ ~config.techniques.testOutputAggregation
  \/ pc = "linter" /\ ~config.techniques.linterAggregation
  \/ pc = "git" /\ ~config.techniques.gitCompaction
  \/ pc = "search" /\ ~config.techniques.searchResultGrouping
  \/ pc = "source" /\ config.techniques.sourceCodeFiltering = "none"
  \/ pc = "smart" /\ ~config.techniques.smartTruncation.enabled
  \/ pc = "truncate" /\ ~config.techniques.truncation.enabled

KnownLanguageRead ==
  /\ input.tool = "read"
  /\ Truthy(input.args.filePath)
  /\ detectLanguage(input.args.filePath.text) # "unknown"

\* C5: a step adds one of the five command labels only for tool 'bash' with a command
\* present, one of the three source labels only for tool 'read' with a file path of
\* a known language, and any label only when the flag of its stage is on; a step
\* taken at a stage that is switched off changes neither the text nor the chain.
C5_LabelsAreGated ==
  [][/\ AddedLabel \in BashOnlyLabels => input.tool = "bash" /\ Truthy(input.args.command)
     /\ AddedLabel \in ReadOnlyLabels => KnownLanguageRead
     /\ AddedLabel \in StageLabels => LabelEnabled(AddedLabel)
     /\ StageSwitchedOff => result' = result /\ technique' = technique]_vars

\* a build command run with only the build filter switched off: the build stage was
\* passed over and a later stage of the bash group still acted
C5_Witness ==
  /\ pc = "done"
  /\ input.tool = "bash"
  /\ isBuildCommand(input.args.command.text)
  /\ ~config.techniques.buildOutputFiltering
  /\ config.techniques.searchResultGrouping
  /\ "build-filter" \notin Labels
  /\ "search-group" \in Labels

\* C6: at the smart truncation stage of a 'read' invocation on a file of a known
\* language, with smartTruncation.enabled and a text of more than maxLines lines, a
\* step that does not throw applies smartTruncate, whatever sourceCodeFiltering is.
C6_SmartTruncationOwnFlag ==
  [][(/\ pc = "smart"
      /\ pc' # "catch"
      /\ KnownLanguageRead
      /\ config.techniques.smartTruncation.enabled
      /\ Len(Split(result, "\n")) > config.techniques.smartTruncation.maxLines)
     => /\ result' = smartTruncate(result, config.techniques.smartTruncation.maxLines)
        /\ technique' = Append(technique, "smart-truncate")]_vars

AllTechniquesEnabled ==
  /\ config.techniques.ansiStripping
  /\ config.techniques.truncation.enabled
  /\ config.techniques.sourceCodeFiltering # "none"
  /\ config.techniques.smartTruncation.enabled
  /\ config.techniques.testOutputAggregation
  /\ config.techniques.buildOutputFiltering
  /\ config.techniques.gitCompaction
  /\ config.techniques.searchResultGrouping
  /\ config.techniques.linterAggregation

BuildOnlyCommand ==
  /\ input.tool = "bash"
  /\ Truthy(input.args.command)
  /\ isBuildCommand(input.args.command.text)
  /\ ~isTestCommand(input.args.command.text)
  /\ ~isLinterCommand(input.args.command.text)
  /\ ~isGitCommand(input.args.command.text)

\* the error blocks the build filter finds in the text it is handed
ErrorBlocks == BuildErrors(BuildScanText(stripAnsiFast(original)))

\* C7: with every technique on, a finished invocation of a build-only command whose
\* output holds an error block, that named a session and was not hard truncated,
\* delivers a text containing the error count header and the first line of each of
\* the first 5 error blocks.
C7_BuildReportSurvives ==
  (/\ pc = "done"
   /\ error = "none"
   /\ AllTechniquesEnabled
   /\ BuildOnlyCommand
   /\ ~resolveSessionID(input).isNull
   /\ "truncate" \notin Labels
   /\ ErrorBlocks # <<>>)
  => /\ ~output.isNull
     /\ Includes(output.text,
                 <<"U+274C", " ">> \o NumToStr(Len(ErrorBlocks)) \o <<" ", "e", "r", "r", "o", "r", "(", "s", ")", ":">>)
     /\ \A k \in 1..Min(5, Len(ErrorBlocks)) : Includes(output.text, ErrorBlocks[k][1])

\* C8: the label search-group is in the chain only for a bash invocation whose
\* command matches a search-tool pattern; for any other command the search stage
\* leaves the text as it was.
C8_SearchOnlyForSearchCommands ==
  "search-group" \in Labels =>
    /\ input.tool = "bash"
    /\ Truthy(input.args.command)
    /\ isSearchCommand(input.args.command.text)

\* C9: truncate(t, n) is at most max(n, 3) long when len(t) > n, and is t otherwise.
C9_TruncateWithinBudget ==
  pc = "returned" =>
    IF Len(fnArgs[1]) > fnArgs[2]
    THEN Len(fnRet.text) <= Max(fnArgs[2], 3)
    ELSE fnRet.text = fnArgs[1]

\* C10: for len(t) > n, truncate(t, n) is the first n-3 characters of t, a newline and
\* '... [truncated: K chars omitted]' with K = len(t) - (n-3) when n >= 3, and is
\* '...' when n < 3; truncate('hello world', 10) is the text of the example.
C10_TruncateForm ==
  /\ (pc = "returned" /\ Len(fnArgs[1]) > fnArgs[2]) =>
       IF fnArgs[2] >= 3
       THEN fnRet.text = SubSeq(fnArgs[1], 1, fnArgs[2] - 3) \o <<"\n">>
                           \o <<".", ".", ".", " ", "[", "t", "r", "u", "n", "c", "a", "t", "e", "d", ":", " ">>
                           \o NumToStr(Len(fnArgs[1]) - (fnArgs[2] - 3))
                           \o <<" ", "c", "h", "a", "r", "s", " ", "o", "m", "i", "t", "t", "e", "d", "]">>
       ELSE fnRet.text = <<".", ".", ".">>
  /\ (pc = "returned" /\ fnArgs = <<<<"h", "e", "l", "l", "o", " ", "w", "o", "r", "l", "d">>, 10>>) =>
       fnRet.text = <<"h", "e", "l", "l", "o", " ", "w", "\n", ".", ".", ".", " ", "[", "t", "r", "u", "n", "c", "a", "t", "e", "d", ":", " ", "4", " ", "c", "h", "a", "r", "s", " ", "o", "m", "i", "t", "t", "e", "d", "]">>

\* the example of the claim has been computed
C10_Witness ==
  /\ pc = "returned"
  /\ fnArgs = <<<<"h", "e", "l", "l", "o", " ", "w", "o", "r", "l", "d">>, 10>>
  /\ fnRet = Some(<<"h", "e", "l", "l", "o", " ", "w", "\n", ".", ".", ".", " ", "[", "t", "r", "u", "n", "c", "a", "t", "e", "d", ":", " ", "4", " ", "c", "h", "a", "r", "s", " ", "o", "m", "i", "t", "t", "e", "d", "]">>)

\* C11: stripAnsi is idempotent: stripping what stripAnsi returned changes nothing.
C11_StripAnsiIdempotent ==
  (pc = "returned" /\ fnArgs[1] = "stripAnsi") => stripAnsi(fnRet.text) = fnRet.text

\* C12: what stripAnsi returns contains no ESC character.
C12_StripAnsiLeavesNoEscape ==
  (pc = "returned" /\ fnArgs[1] = "stripAnsi") =>
    \A k \in 1..Len(fnRet.text) : fnRet.text[k] # "ESC"


\* ---------------------------------------------------------------------------
\* Metric records
\* ---------------------------------------------------------------------------

\* calculateSavings: 0 for an empty original, else Math.round(savings * 100) / 100
\* with savings = ((originalChars - filteredChars) / originalChars) * 100; kept
\* in hundredths of a percent
calculateSavings(originalChars, filteredChars) ==
  IF originalChars = 0
  THEN 0
  ELSE LET savings100 == 10000 * (originalChars - filteredChars)
       IN  (2 * savings100 + originalChars) \div (2 * originalChars)

\* hundredths is one of the nearest hundredths of 100 * (o - f) / o
NearestHundredth(hundredths, o, f) ==
  LET twice == 2 * (10000 * (o - f) - o * hundredths)
  IN  (0 - o) <= twice /\ twice <= o

\* C13: every metric record holds the lengths of the original text and of the
\* delivered text, and the savings 100 * (o - f) / o rounded to two decimals
\* (0 for an empty original); calculateSavings is the same function, with
\* calculateSavings(100, 33) = 67 and calculateSavings(0, 0) = 0
C13_RecordFields ==
  /\ \A i \in 1..Len(sessionMetrics) :
       LET record == sessionMetrics[i]
       IN  /\ record.originalChars = Len(original)
           /\ ~output.isNull
           /\ record.filteredChars = Len(output.text)
           /\ IF record.originalChars = 0
                THEN record.savingsPercent = 0
                ELSE NearestHundredth(record.savingsPercent, record.originalChars,
                                      record.filteredChars)
           /\ record.savingsPercent =
                calculateSavings(record.originalChars, record.filteredChars)
  /\ calculateSavings(100, 33) = 6700
  /\ calculateSavings(0, 0) = 0

\* a record whose savings are not a whole number of hundredths
C13_Witness ==
  /\ pc = "done"
  /\ Len(sessionMetrics) = 1
  /\ (10000 * (sessionMetrics[1].originalChars - sessionMetrics[1].filteredChars))
       % sessionMetrics[1].originalChars # 0

(***************************************************************************)
(* Session summaries (metrics.ts, src/unnamed/part_005).                   *)
(***************************************************************************)
\* formatBytes: the number the text shows and its unit; toFixed(1) keeps tenths
formatBytes(chars) ==
  IF chars < 1024 THEN [value |-> chars, unit |-> "chars"]
  ELSE IF chars < 1024 * 1024
         THEN [value |-> (20 * chars + 1024) \div 2048, unit |-> "KB"]
         ELSE [value |-> (20 * chars + 1048576) \div 2097152, unit |-> "MB"]

\* records.reduce((sum, r) => sum + r[field], 0)
RECURSIVE totalChars(_, _)
totalChars(records, field) ==
  IF records = <<>> THEN 0
  ELSE totalChars(SubSeq(records, 1, Len(records) - 1), field) + records[Len(records)][field]

\* records.reduce(...) into byTechnique, in Object.entries order (first use first)
RECURSIVE byTechnique(_)
byTechnique(records) ==
  IF records = <<>> THEN <<>>
  ELSE LET r == records[Len(records)]
           acc == byTechnique(SubSeq(records, 1, Len(records) - 1))
           at == {i \in 1..Len(acc) : acc[i].technique = r.technique}
       IN  IF at = {}
             THEN Append(acc, [technique |-> r.technique, count |-> 1,
                               original |-> r.originalChars, filtered |-> r.filteredChars])
             ELSE [i \in 1..Len(acc) |->
                     IF i \in at
                       THEN [acc[i] EXCEPT !.count = @ + 1,
                                           !.original = @ + r.originalChars,
                                           !.filtered = @ + r.filteredChars]
                       ELSE acc[i]]

\* .map(...) to {technique, count, savings}, then .sort((a, b) => b.savings - a.savings),
\* which is stable
RECURSIVE techniques(_)
techniques(entries) ==
  IF entries = <<>> THEN <<>>
  ELSE LET data == entries[1]
           item == [technique |-> data.technique, count |-> data.count,
                    savings |-> calculateSavings(data.original, data.filtered)]
           rest == techniques(Tail(entries))
           before == SelectSeq(rest, LAMBDA other : other.savings > item.savings)
       IN  before \o <<item>> \o SubSeq(rest, Len(before) + 1, Len(rest))

\* formatSessionSummary: the values its template lines interpolate; a percentage
\* stays in hundredths (the text shows it with toFixed(1))
formatSessionSummary(records) ==
  LET totalOriginal == totalChars(records, "originalChars")
      totalFiltered == totalChars(records, "filteredChars")
      entries == byTechnique(records)
  IN  IF records = <<>>
        THEN [template |-> "RTK: No token savings this session", totalSavings |-> 0,
              original |-> formatBytes(0), filtered |-> formatBytes(0), lines |-> <<>>]
        ELSE [template |-> "RTK Session Summary",
              totalSavings |-> calculateSavings(totalOriginal, totalFiltered),
              original |-> formatBytes(totalOriginal),
              filtered |-> formatBytes(totalFiltered),
              lines |-> [i \in 1..Len(entries) |->
                           [technique |-> entries[i].technique, count |-> entries[i].count,
                            pct |-> calculateSavings(entries[i].original,
                                                     entries[i].filtered)]]]

\* a summary whose elision line counts the records left out, not the strategies
formatToastSummaryCountsRecords(records) ==
  LET totalOriginal == totalChars(records, "originalChars")
      totalFiltered == totalChars(records, "filteredChars")
      sorted == techniques(byTechnique(records))
      maxTechniques == Min(5, Len(sorted))
  IN  IF records = <<>>
        THEN [template |-> "No RTK savings recorded yet for this session",
              totalSavings |-> 0, original |-> formatBytes(0), filtered |-> formatBytes(0),
              reductions |-> 0, lines |-> <<>>, more |-> 0]
        ELSE [template |-> "savings this session",
              totalSavings |-> calculateSavings(totalOriginal, totalFiltered),
              original |-> formatBytes(totalOriginal),
              filtered |-> formatBytes(totalFiltered),
              reductions |-> Len(records),
              lines |-> SubSeq(sorted, 1, maxTechniques),
              more |-> Len(records) - maxTechniques]

\* formatToastSummary: the values its template lines interpolate, at most 5
\* strategy lines and the number of strategies left out (0: no '...and N more')
formatToastSummary(records) ==
  LET totalOriginal == totalChars(records, "originalChars")
      totalFiltered == totalChars(records, "filteredChars")
      sorted == techniques(byTechnique(records))
      maxTechniques == Min(5, Len(sorted))
  IN  IF records = <<>>
        THEN [template |-> "No RTK savings recorded yet for this session",
              totalSavings |-> 0, original |-> formatBytes(0), filtered |-> formatBytes(0),
              reductions |-> 0, lines |-> <<>>, more |-> 0]
        ELSE [template |-> "savings this session",
              totalSavings |-> calculateSavings(totalOriginal, totalFiltered),
              original |-> formatBytes(totalOriginal),
              filtered |-> formatBytes(totalFiltered),
              reductions |-> Len(records),
              lines |-> SubSeq(sorted, 1, maxTechniques),
              more |-> Len(sorted) - maxTechniques]

\* how many distinct techniques the records of one summary have at most
MaxTechniques == 6

\* the original and filtered sizes of a record: half and a tenth saved, and
\* nothing to save
RecordSizes == {<<100, 50>>, <<100, 90>>, <<0, 0>>}

\* the k-th technique name
TechniqueName(k) == <<"t", DigitOf(k)>>

\* one record per technique for up to MaxTechniques techniques, in every
\* combination of sizes, alone or followed by a second record of the first
\* technique
RecordLists ==
  UNION {UNION {{[i \in 1..n |-> [technique |-> TechniqueName(i),
                                  originalChars |-> sizes[i][1],
                                  filteredChars |-> sizes[i][2]]]
                   \o more :
                   more \in {<<>>, <<[technique |-> TechniqueName(1),
                                      originalChars |-> 100, filteredChars |-> 0]>>}} :
                sizes \in [1..n -> RecordSizes]} :
         n \in 0..MaxTechniques}

(***************************************************************************)
(* The exported functions called on their own: fnArgs holds the name of    *)
(* the function and its arguments, fnRet what it returned.                 *)
(***************************************************************************)
MaxAnsiLen == 6

\* texts made of ESC, '[' and a letter, and escape sequences of the kinds terminals send
AnsiTexts ==
  TextsUpTo({"ESC", "[", "m"}, MaxAnsiLen)
    \cup {<<"p", "l", "a", "i", "n">>,
          <<"ESC">> \o <<"[", "3", "1", "m", "R", "e", "d">> \o <<"ESC">> \o <<"[", "0", "m", " ", "T", "e", "x", "t">>,
          <<"ESC">> \o <<"[", "?", "2", "5", "h">>,
          <<"ESC">> \o <<"]", "0", ";", "t", "i", "t", "l", "e">>,
          <<"ESC">> \o <<"]", "0", ";", "t", "i", "t", "l", "e">> \o <<"BEL">>,
          <<"ESC">> \o <<"]", "8", ";", ";", "h", "t", "t", "p", ":", "/", "/", "x">> \o <<"ESC", "\\">> \o <<"l", "i", "n", "k">>,
          <<"a">> \o <<"ESC">>,
          <<"ESC">> \o <<"]", "0", ";">> \o <<"ESC">> \o <<"[", "0", "m">> \o <<"BEL">>}

\* test outputs: the failing Rust run of the test suite whole, its summary line
\* alone and after a progress line, a passing Rust run, a Jest summary, no summary
TestOutputs ==
  {<<"t", "e", "s", "t", " ", "r", "e", "s", "u", "l", "t", ":", " ", "F", "A", "I", "L", "E", "D", ".", " ", "5", " ", "p", "a", "s", "s", "e", "d", ";", " ", "2", " ", "f", "a", "i", "l", "e", "d", ";", " ", "0", " ", "i", "g", "n", "o", "r", "e", "d", "\n", "\n", "F", "A", "I", "L", " ", "t", "e", "s", "t", "-", "o", "n", "e", "\n", " ", " ", "e", "x", "p", "e", "c", "t", "(", "r", "e", "c", "e", "i", "v", "e", "d", ")", ".", "t", "o", "B", "e", "(", "e", "x", "p", "e", "c", "t", "e", "d", ")", "\n", " ", " ", "\n", "F", "A", "I", "L", " ", "t", "e", "s", "t", "-", "t", "w", "o", "\n", " ", " ", "a", "s", "s", "e", "r", "t", "i", "o", "n", " ", "f", "a", "i", "l", "e", "d">>,
   <<"t", "e", "s", "t", " ", "r", "e", "s", "u", "l", "t", ":", " ", "F", "A", "I", "L", "E", "D", ".", " ", "5", " ", "p", "a", "s", "s", "e", "d", ";", " ", "2", " ", "f", "a", "i", "l", "e", "d", ";", " ", "0", " ", "i", "g", "n", "o", "r", "e", "d">>,
   <<"r", "u", "n", "n", "i", "n", "g", " ", "7", " ", "t", "e", "s", "t", "s", "\n", "t", "e", "s", "t", " ", "r", "e", "s", "u", "l", "t", ":", " ", "F", "A", "I", "L", "E", "D", ".", " ", "5", " ", "p", "a", "s", "s", "e", "d", ";", " ", "2", " ", "f", "a", "i", "l", "e", "d", ";", " ", "0", " ", "i", "g", "n", "o", "r", "e", "d", ";", " ", "0", " ", "m", "e", "a", "s", "u", "r", "e", "d", "\n">>,
   <<"t", "e", "s", "t", " ", "r", "e", "s", "u", "l", "t", ":", " ", "o", "k", ".", " ", "5", " ", "p", "a", "s", "s", "e", "d", ";", " ", "0", " ", "f", "a", "i", "l", "e", "d", ";", " ", "0", " ", "i", "g", "n", "o", "r", "e", "d">>,
   <<"T", "e", "s", "t", "s", ":", " ", "4", "2", " ", "p", "a", "s", "s", "e", "d", ",", " ", "0", " ", "f", "a", "i", "l", "e", "d", ",", " ", "0", " ", "s", "k", "i", "p", "p", "e", "d">>,
   <<"a", "l", "l", " ", "g", "o", "o", "d">>}

\* how many lines the texts built from a set of lines have at most
MaxLines == 3

\* the texts of at most n lines taken from lineSet
LinesUpTo(lineSet, n) == {Join(ls, <<"\n">>) : ls \in TextsUpTo(lineSet, n) \ {<<>>}}

StripAnsiCalls == {<<"stripAnsi", text>> : text \in AnsiTexts}

\* the summary line of a run with the given counts in the wording of a test
\* runner: Rust, the generic wording, Bun, Jest
SummaryLine(runner, passed, failed, skipped) ==
  IF runner = "rust"
    THEN <<"t", "e", "s", "t", " ", "r", "e", "s", "u", "l", "t", ":", " ">> \o (IF failed > 0 THEN <<"F", "A", "I", "L", "E", "D">> ELSE <<"o", "k">>) \o <<".", " ">>
           \o NumToStr(passed) \o <<" ", "p", "a", "s", "s", "e", "d", ";", " ">> \o NumToStr(failed) \o <<" ", "f", "a", "i", "l", "e", "d", ";", " ">>
           \o NumToStr(skipped) \o <<" ", "i", "g", "n", "o", "r", "e", "d">>
  ELSE IF runner = "bun"
    THEN NumToStr(passed) \o <<" ", "p", "a", "s", "s", ",", " ">> \o NumToStr(failed) \o <<" ", "f", "a", "i", "l", ",", " ">>
           \o NumToStr(skipped) \o <<" ", "s", "k", "i", "p">>
  ELSE (IF runner = "jest" THEN <<"T", "e", "s", "t", "s", ":", " ">> ELSE <<>>)
         \o NumToStr(passed) \o <<" ", "p", "a", "s", "s", "e", "d", ",", " ">> \o NumToStr(failed) \o <<" ", "f", "a", "i", "l", "e", "d", ",", " ">>
         \o NumToStr(skipped) \o <<" ", "s", "k", "i", "p", "p", "e", "d">>

TestRunners == {"rust", "generic", "bun", "jest"}

\* passed, failed and skipped counts of a run: all passed, some failed, some
\* failed and some skipped
TestCounts == {<<42, 0, 0>>, <<5, 2, 0>>, <<7, 1, 3>>}

SummaryLines ==
  {SummaryLine(runner, counts[1], counts[2], counts[3]) :
     runner \in TestRunners, counts \in TestCounts}

\* outputs with two blank lines after a block of `held` lines that opens with
\* `start`, the lines `between` standing between the two blank lines
BlankRun(start, held, between) ==
  Join(<<start>> \o [j \in 1..(held - 1) |-> <<" ", " ", "a", "t", " ", "a">>] \o <<<<>>>> \o between
         \o <<<<>>, <<" ", " ", "t", "a", "i", "l">>>>,
       <<"\n">>)

\* build outputs whose error block of 2 or 4 lines meets two blank lines: one
\* after the other, or with a warning, a noise line or an indented line between
BlankRunBuildOutputs ==
  {BlankRun(<<"e", "r", "r", "o", "r", ":", " ", "x">>, held, between) :
     held \in {2, 4},
     between \in {<<>>, <<<<"w", "a", "r", "n", "i", "n", "g", ":", " ", "w">>>>, <<<<"D", "o", "w", "n", "l", "o", "a", "d", "i", "n", "g", " ", "d">>>>, <<<<" ", " ", "a", "t", " ", "b">>>>}}

\* test outputs whose failure block of 2 or 4 lines meets two blank lines: one
\* after the other, or with an indented line or a separator line between
BlankRunTestOutputs ==
  {BlankRun(<<"F", "A", "I", "L", " ", "t", "1">>, held, between) :
     held \in {2, 4}, between \in {<<>>, <<<<" ", " ", "a", "t", " ", "b">>>>, <<<<"-", " ", "s", "e", "p">>>>}}

AggregateTestOutputCalls ==
  {<<"aggregateTestOutput", output_, command>> :
     output_ \in TestOutputs \cup SummaryLines \cup BlankRunTestOutputs,
     command \in {<<"c", "a", "r", "g", "o", " ", "t", "e", "s", "t">>, <<"b", "u", "n", " ", "t", "e", "s", "t">>, <<"n", "p", "m", " ", "r", "u", "n", " ", "t", "e", "s", "t", ":", "u", "n", "i", "t">>, <<"c", "a", "r", "g", "o", " ", "b", "u", "i", "l", "d">>}}

\* build outputs made of progress lines, other noise, an error, a warning, a
\* blank line and a progress word that nothing follows; the clean build of the
\* test suite
BuildOutputs ==
  LinesUpTo({<<"C", "o", "m", "p", "i", "l", "i", "n", "g", " ", "a", " ", "v", "1">>, <<" ", " ", "C", "h", "e", "c", "k", "i", "n", "g", " ", "b">>, <<"B", "u", "i", "l", "d", "i", "n", "g", " ", "c">>, <<"D", "o", "w", "n", "l", "o", "a", "d", "i", "n", "g", " ", "d">>,
             <<"F", "i", "n", "i", "s", "h", "e", "d", " ", "d", "e", "v", " ", "i", "n", " ", "2", ".", "5", "s">>, <<>>, <<"e", "r", "r", "o", "r", ":", " ", "x">>, <<"w", "a", "r", "n", "i", "n", "g", ":", " ", "y">>, <<"C", "o", "m", "p", "i", "l", "i", "n", "g">>},
            MaxLines)
    \cup {<<"C", "o", "m", "p", "i", "l", "i", "n", "g", " ", "m", "y", "c", "r", "a", "t", "e", " ", "v", "1", ".", "0", ".", "0", "\n", "D", "o", "w", "n", "l", "o", "a", "d", "i", "n", "g", " ", "s", "o", "m", "e", "-", "d", "e", "p", " ", "v", "0", ".", "1", ".", "0", "\n", "C", "o", "m", "p", "i", "l", "i", "n", "g", " ", "s", "o", "m", "e", "-", "d", "e", "p", " ", "v", "0", ".", "1", ".", "0", "\n", "F", "i", "n", "i", "s", "h", "e", "d", " ", "d", "e", "v", " ", "[", "u", "n", "o", "p", "t", "i", "m", "i", "z", "e", "d", " ", "+", " ", "d", "e", "b", "u", "g", "i", "n", "f", "o", "]", " ", "t", "a", "r", "g", "e", "t", "(", "s", ")", " ", "i", "n", " ", "2", ".", "5", "s">>}

\* how many error blocks a generated build output has at most, and how many
\* lines its long block has
MaxErrors == 6
MaxBlockLines == 11

\* how a generated error block ends: the next block or the end of the output
\* follows directly, a line that is not indented follows, two blank lines follow
BlockEnds == {"next", "text", "blank"}

\* the k-th error block of a generated output: its start line, its indented
\* lines, its end
GeneratedBlock(k, blockLines, end) ==
  <<<<"e", "r", "r", "o", "r", ":", " ", "e">> \o NumToStr(k)>> \o [j \in 1..(blockLines - 1) |-> <<" ", " ", "a", "t", " ", "a">>]
    \o (CASE end = "text" -> <<<<"d", "o", "n", "e">>>>
          [] end = "blank" -> <<<<>>, <<>>>>
          [] OTHER -> <<>>)

\* the lines of blocks k..n, the block numbered long having MaxBlockLines lines
\* and the others 2
RECURSIVE GeneratedBlocks(_, _, _, _)
GeneratedBlocks(k, n, long, end) ==
  IF k > n THEN <<>>
  ELSE GeneratedBlock(k, IF k = long THEN MaxBlockLines ELSE 2, end)
         \o GeneratedBlocks(k + 1, n, long, end)

\* build outputs with 1..MaxErrors error blocks, one of them long or none
ErrorOutputs ==
  {Join(<<<<" ", " ", " ", "C", "o", "m", "p", "i", "l", "i", "n", "g", " ", "a", "p", "p", " ", "v", "0", ".", "1", ".", "0">>>> \o GeneratedBlocks(1, n, long, end), <<"\n">>) :
     n \in 1..MaxErrors, long \in 0..2, end \in BlockEnds}

FilterBuildOutputCalls ==
  {<<"filterBuildOutput", output_, command>> :
     output_ \in BuildOutputs \cup ErrorOutputs \cup BlankRunBuildOutputs,
     command \in {<<"c", "a", "r", "g", "o", " ", "b", "u", "i", "l", "d">>, <<"l", "s", " ", "-", "l", "a">>}}

\* porcelain outputs: staged, modified, untracked and unmerged entries, an
\* entry in two classes, the branch line and a blank line; the empty output
StatusOutputs ==
  LinesUpTo({<<"M", " ", " ", "a">>, <<" ", "M", " ", "b">>, <<"?", "?", " ", "c">>, <<"U", "U", " ", "d">>, <<"A", "U", " ", "e">>, <<"M", "D", " ", "f">>, <<"R", " ", " ", "g">>,
             <<"O", "n", " ", "b", "r", "a", "n", "c", "h", " ", "m", "a", "i", "n">>, <<>>},
            MaxLines)

CompactStatusCalls == {<<"compactStatus", output_>> : output_ \in StatusOutputs}

\* git outputs that the three compactions turn into three different texts
GitOutputs ==
  {<<"M", " ", " ", "a">>, <<"a", "b", "c", "1", "2", "3", "4", " ", "f", "i", "x">>, <<>>, <<"d", "i", "f", "f", " ", "-", "-", "g", "i", "t", " ", "a", "/", "x", " ", "b", "/", "x", "\n", "@", "@", " ", "-", "1", " ", "+", "1", " ", "@", "@", "\n", "+", "y">>}

\* the three compacted subcommands bare and with arguments, arguments that hold
\* the name of another subcommand, other git subcommands, other commands
GitCommandLines ==
  {<<"g", "i", "t", " ", "d", "i", "f", "f">>, <<"g", "i", "t", " ", "d", "i", "f", "f", " ", "-", "-", "s", "t", "a", "t">>, <<"g", "i", "t", " ", "s", "t", "a", "t", "u", "s">>, <<"g", "i", "t", " ", "s", "t", "a", "t", "u", "s", " ", "-", "s">>,
   <<"g", "i", "t", " ", "s", "t", "a", "t", "u", "s", " ", "s", "r", "c", "/", "d", "i", "f", "f">>, <<"g", "i", "t", " ", "l", "o", "g">>, <<"g", "i", "t", " ", "l", "o", "g", " ", "-", "-", "o", "n", "e", "l", "i", "n", "e">>,
   <<"g", "i", "t", " ", "l", "o", "g", " ", "-", "-", " ", "s", "t", "a", "t", "u", "s", ".", "m", "d">>, <<"g", "i", "t", " ", "s", "h", "o", "w">>, <<"g", "i", "t", " ", "s", "h", "o", "w", " ", "H", "E", "A", "D", ":", "d", "i", "f", "f", ".", "t", "s">>,
   <<"g", "i", "t", " ", "s", "t", "a", "s", "h">>, <<"g", "i", "t", " ", "s", "t", "a", "s", "h", " ", "l", "i", "s", "t">>, <<"g", "i", "t", " ", "p", "u", "s", "h">>, <<"l", "s">>, <<"d", "i", "f", "f", " ", "a", " ", "b">>}

CompactGitOutputCalls ==
  {<<"compactGitOutput", output_, command>> :
     output_ \in GitOutputs, command \in GitCommandLines}

\* how many files a generated diff has at most, and how many added lines its
\* long hunks have
MaxDiffFiles == 5
MaxAdded == 11

\* the lines of file k of a generated diff: its header lines and, when it is
\* changed, one hunk of `added` added lines and one removed line
DiffFile(k, added) ==
  <<<<"d", "i", "f", "f", " ", "-", "-", "g", "i", "t", " ", "a", "/", "f">> \o NumToStr(k) \o <<" ", "b", "/", "f">> \o NumToStr(k)>>
    \o (IF added = 0 THEN <<<<"o", "l", "d", " ", "m", "o", "d", "e", " ", "1", "0", "0", "6", "4", "4">>, <<"n", "e", "w", " ", "m", "o", "d", "e", " ", "1", "0", "0", "7", "5", "5">>>>
        ELSE <<<<"-", "-", "-", " ", "a", "/", "f">> \o NumToStr(k), <<"+", "+", "+", " ", "b", "/", "f">> \o NumToStr(k), <<"@", "@", " ", "-", "1", ",", "2", " ", "+", "1", ",", "9", " ", "@", "@", " ", "f", "n">>, <<" ", "c", "t", "x">>>>
               \o [j \in 1..added |-> <<"+", "n", "e", "w">>] \o <<<<"-", "o", "l", "d">>>>)

RECURSIVE DiffFiles(_, _, _, _)
DiffFiles(k, n, first, added) ==
  IF k > n THEN <<>>
  ELSE DiffFile(k, IF k = 1 THEN first ELSE added) \o DiffFiles(k + 1, n, first, added)

\* diffs of 1..MaxDiffFiles files: hunks of 1 or of MaxAdded added lines, the
\* first file with a hunk like the others or with a mode change only
DiffOutputs ==
  {Join(DiffFiles(1, n, first, added), <<"\n">>) :
     n \in 1..MaxDiffFiles, first \in {0, 1}, added \in {1, MaxAdded}}

CompactDiffCalls == {<<"compactDiff", output_>> : output_ \in DiffOutputs \cup GitOutputs}

\* how many files a generated search output names at most, and how many
\* matches its files have at most
MaxSearchFiles == 4
MaxMatches == 11

\* the grep lines of files f<n> down to f1, `matches` lines each
GrepLines(n, matches) ==
  [k \in 1..(n * matches) |->
     <<"s", "r", "c", "/", "f">> \o NumToStr(n - ((k - 1) \div matches)) \o <<".", "t", "s", ":">>
       \o NumToStr(((k - 1) % matches) + 1) \o <<":", "h", "i", "t">>]

\* search outputs of 1..MaxSearchFiles files with 1, 9 or MaxMatches matches each
SearchOutputs ==
  {Join(GrepLines(n, matches), <<"\n">>) :
     n \in 1..MaxSearchFiles, matches \in {1, 9, MaxMatches}}

GroupSearchResultsCalls == {<<"groupSearchResults", output_>> : output_ \in SearchOutputs}

\* how many newlines stand between the two words of a generated text at most
MaxNewlines == 5

\* two words with 1..MaxNewlines newlines, that is 0..MaxNewlines - 1 blank
\* lines, between them and one blank line before the first
BlankLineTexts ==
  {<<"\n", "a">> \o [j \in 1..k |-> "\n"] \o <<"b">> \o [j \in 1..(k - 1) |-> "\n"] \o <<"c">> :
     k \in 1..MaxNewlines}

\* Python sources: a one-line docstring, a statement with a comment, a comment
\* line, a statement
PythonSources ==
  LinesUpTo({<<"\"", "\"", "\"", "d", "o", "c", "\"", "\"", "\"">>, <<"x", " ", "=", " ", "1", " ", " ", "#", " ", "n", "o", "t", "e">>, <<"#", " ", "t", "o", "p">>, <<"y", " ", "=", " ", "2">>}, MaxLines)

\* TypeScript sources: a block comment on one line, a statement with a
\* comment, a comment line, a statement
TypeScriptSources ==
  LinesUpTo({<<"/", "*", " ", "n", "o", "t", "e", " ", "*", "/">>, <<"a", "(", ")", ";", " ", "/", "/", " ", "n", "o", "t", "e">>, <<"/", "/", " ", "t", "o", "p">>, <<"b", "(", ")", ";">>}, MaxLines)

FilterMinimalCalls ==
  {<<"filterMinimal", content, language>> :
     content \in BlankLineTexts, language \in {"typescript", "python", "unknown"}}
    \cup {<<"filterMinimal", content, "python">> : content \in PythonSources}
    \cup {<<"filterMinimal", content, language>> :
            content \in TypeScriptSources, language \in {"typescript", "unknown"}}

\* TypeScript sources with an import, an exported constant and one function:
\* its opening brace on the signature line or on the next one, its body two
\* statements or with a nested block
FunctionSources ==
  {Join(<<<<"i", "m", "p", "o", "r", "t", " ", "{", " ", "x", " ", "}", " ", "f", "r", "o", "m", " ", "'", ".", "/", "x", "'", ";">>, <<"e", "x", "p", "o", "r", "t", " ", "c", "o", "n", "s", "t", " ", "K", " ", "=", " ", "1", ";">>>>
          \o (IF braceOnSignature THEN <<<<"f", "u", "n", "c", "t", "i", "o", "n", " ", "t", "e", "s", "t", "(", ")", " ", "{">>>> ELSE <<<<"f", "u", "n", "c", "t", "i", "o", "n", " ", "t", "e", "s", "t", "(", ")">>, <<"{">>>>)
          \o (IF nested THEN <<<<" ", " ", "i", "f", " ", "(", "x", ")", " ", "{">>, <<" ", " ", " ", " ", "l", "o", "g", "(", "x", ")", ";">>, <<" ", " ", "}">>>> ELSE <<<<" ", " ", "l", "o", "g", "(", "x", ")", ";">>>>)
          \o <<<<" ", " ", "r", "e", "t", "u", "r", "n", " ", "4", "2", ";">>, <<"}">>>>,
        <<"\n">>) :
     braceOnSignature \in BOOLEAN, nested \in BOOLEAN}

FilterAggressiveCalls ==
  {<<"filterAggressive", content, language>> :
     content \in FunctionSources, language \in {"typescript", "unknown"}}

\* the longest source handed to smartTruncate, in lines
MaxSmartLines == 8

\* the budgets smartTruncate is called with
SmartBudgets == {4, 6}

\* line k of a source: an import, which is important, or a plain statement
SmartLine(k, important) ==
  IF important THEN <<"i", "m", "p", "o", "r", "t", " ", "m">> \o NumToStr(k) ELSE <<"x">> \o NumToStr(k)

\* sources whose lines all differ, imports and statements in every order
SmartSources ==
  UNION {{Join([k \in 1..n |-> SmartLine(k, k \in imports)], <<"\n">>) :
            imports \in SUBSET (1..n)} : n \in 1..MaxSmartLines}

SmartTruncateCalls ==
  {<<"smartTruncate", content, maxLines>> :
     content \in SmartSources, maxLines \in SmartBudgets}

\* the objects that have the property `name` with one of `values`, or not at all
Optional(name, values) == {EmptyObject} \cup {name :> v : v \in values}

\* values of showUpdateEvery in a parsed file: integers below, at and above
\* zero, fractions, a string, null
ShowUpdateEveryValues ==
  {JsNumber(t) : t \in {-20, -10, -5, 0, 5, 10, 25, 30}}
    \cup {JsOther("string"), JsOther("object")}

\* partial truncation and smartTruncation objects
TruncationOverrides ==
  {a @@ b : a \in Optional("enabled", {FALSE}), b \in Optional("maxChars", {5000})}

SmartTruncationOverrides ==
  {a @@ b : a \in Optional("enabled", {FALSE}), b \in Optional("maxLines", {50})}

TechniquesOverrides ==
  {a @@ b @@ c @@ d :
     a \in Optional("ansiStripping", {FALSE}),
     b \in Optional("sourceCodeFiltering", {"aggressive"}),
     c \in Optional("truncation", TruncationOverrides),
     d \in Optional("smartTruncation", SmartTruncationOverrides)}

\* Partial<RtkConfig>: what JSON.parse gives for a configuration file
Overrides ==
  {a @@ b @@ c @@ d :
     a \in Optional("enabled", {FALSE}),
     b \in Optional("logSavings", {FALSE}),
     c \in Optional("showUpdateEvery", ShowUpdateEveryValues),
     d \in Optional("techniques", TechniquesOverrides)}

\* the defaults, and a configuration that differs from them in every field
\* an override of Overrides can name
Bases ==
  {DEFAULT_CONFIG,
   [RtkConfig(TechniqueFlags \ {"smartTruncation"}, "none",
              [maxChars |-> 7, maxLines |-> 3, logSavings |-> TRUE])
      EXCEPT !.showUpdateEvery = 4]}

MergeConfigCalls ==
  {<<"mergeConfig", base, override>> : base \in Bases, override \in Overrides}

FormatToastSummaryCalls == {<<"formatToastSummary", records>> : records \in RecordLists}

\* how many issue lines a linter output has
MaxIssues == 13

\* the k-th file name and the k-th rule name; odd rules are E rules, and the
\* word before an eslint rule is the message
FileName(k) == <<"f">> \o NumToStr(k)
RuleName(k) == (IF k % 2 = 1 THEN <<"E">> ELSE <<"W">>) \o NumToStr(k)

\* issue k of an output with `files` files and `rules` rules: the last file and
\* the last rule take every issue from theirs on, so that they come last in the
\* output and first in the report
IssueLine(k, files, rules, linterType) ==
  FileName(Min(k, files)) \o <<":">> \o NumToStr(k) \o <<":", "1", ":", " ">>
    \o (IF linterType = <<"e", "s", "l", "i", "n", "t">>
        THEN (IF k % 3 = 0 THEN <<"e", "r", "r", "o", "r">> ELSE <<"w", "a", "r", "n", "i", "n", "g">>) \o <<" ", "m", " ">>
        ELSE <<>>)
    \o RuleName(Min(k, rules))
    \o (IF linterType = <<"e", "s", "l", "i", "n", "t">> THEN <<>> ELSE <<" ", "m">>)

\* MaxIssues issue lines and a closing line that is no issue
LinterOutput(files, rules, linterType) ==
  Join([k \in 1..MaxIssues |-> IssueLine(k, files, rules, linterType)]
         \o <<<<"F", "o", "u", "n", "d", " ", "s", "o", "m", "e", " ", "e", "r", "r", "o", "r", "s", ".">>>>,
       <<"\n">>)

AggregateLinterOutputCalls ==
  {<<"aggregateLinterOutput", LinterOutput(files, rules, detectLinterType(command)), command>> :
     files \in 1..MaxIssues, rules \in 1..MaxIssues,
     command \in {<<"r", "u", "f", "f", " ", "c", "h", "e", "c", "k", " ", ".">>, <<"n", "p", "x", " ", "e", "s", "l", "i", "n", "t", " ", ".">>}}

Calls ==
  StripAnsiCalls \cup AggregateTestOutputCalls \cup FilterBuildOutputCalls
    \cup CompactStatusCalls \cup CompactGitOutputCalls \cup MergeConfigCalls
    \cup FormatToastSummaryCalls \cup AggregateLinterOutputCalls
    \cup CompactDiffCalls \cup GroupSearchResultsCalls \cup FilterMinimalCalls
    \cup FilterAggressiveCalls \cup SmartTruncateCalls

InitCalls ==
  /\ config = DEFAULT_CONFIG
  /\ input = Invocation("none", NotAString, NotAString, NotAString, NotAString, NotAString)
  /\ output = Null
  /\ pc = "call"
  /\ original = <<>>
  /\ result = <<>>
  /\ technique = <<>>
  /\ error = "none"
  /\ sessionMetrics = <<>>
  /\ appLog = <<>>
  /\ metricsFile = <<>>
  /\ fnArgs \in Calls
  /\ fnRet = Null
  /\ idleTurnCounts = <<>>
  /\ toasts = <<>>
  /\ idleEvents = <<>>
  /\ thrown = "none"
  /\ tasks = <<>>

Returns(value) ==
  /\ pc = "call"
  /\ fnRet' = value
  /\ pc' = "returned"
  /\ UNCHANGED <<config, input, output, original, result, technique, error, sessionMetrics,
                 appLog, metricsFile, fnArgs,
                 idleTurnCounts, toasts, idleEvents, thrown, tasks>>

CallStripAnsi == fnArgs[1] = "stripAnsi" /\ Returns(Some(stripAnsi(fnArgs[2])))

CallAggregateTestOutput ==
  /\ fnArgs[1] = "aggregateTestOutput"
  /\ Returns(aggregateTestOutput(fnArgs[2], fnArgs[3]))

CallFilterBuildOutput ==
  /\ fnArgs[1] = "filterBuildOutput"
  /\ Returns(filterBuildOutput(fnArgs[2], fnArgs[3]))

CallCompactStatus == fnArgs[1] = "compactStatus" /\ Returns(Some(compactStatus(fnArgs[2])))

CallCompactGitOutput ==
  /\ fnArgs[1] = "compactGitOutput"
  /\ Returns(compactGitOutput(fnArgs[2], fnArgs[3]))

CallCompactDiff == fnArgs[1] = "compactDiff" /\ Returns(Some(compactDiff(fnArgs[2])))

CallGroupSearchResults ==
  fnArgs[1] = "groupSearchResults" /\ Returns(groupSearchResults(fnArgs[2]))

CallFilterMinimal ==
  fnArgs[1] = "filterMinimal" /\ Returns(Some(filterMinimal(fnArgs[2], fnArgs[3])))

CallFilterAggressive ==
  fnArgs[1] = "filterAggressive" /\ Returns(Some(filterAggressive(fnArgs[2], fnArgs[3])))

CallSmartTruncate ==
  fnArgs[1] = "smartTruncate" /\ Returns(Some(smartTruncate(fnArgs[2], fnArgs[3])))

CallMergeConfig == fnArgs[1] = "mergeConfig" /\ Returns(mergeConfig(fnArgs[2], fnArgs[3]))

CallFormatToastSummary ==
  /\ fnArgs[1] = "formatToastSummary"
  /\ Returns(formatToastSummary(fnArgs[2]))

CallAggregateLinterOutput ==
  /\ fnArgs[1] = "aggregateLinterOutput"
  /\ Returns(aggregateLinterOutput(fnArgs[2], fnArgs[3]))

NextCalls ==
  \/ CallStripAnsi
  \/ CallAggregateTestOutput
  \/ CallFilterBuildOutput
  \/ CallCompactStatus
  \/ CallCompactGitOutput
  \/ CallMergeConfig
  \/ CallFormatToastSummary
  \/ CallAggregateLinterOutput
  \/ CallCompactDiff
  \/ CallGroupSearchResults
  \/ CallFilterMinimal
  \/ CallFilterAggressive
  \/ CallSmartTruncate

SpecCalls == InitCalls /\ [][NextCalls]_vars

(***************************************************************************)
(* The plugin instance over several hook calls (tool.execute.after,        *)
(* command.execute.before, event), each begun when the one before is over  *)
(***************************************************************************)
\* how much one plugin instance is made to handle: records stored, log calls,
\* toasts and session.idle events, taken together
MaxTraffic == 5

\* the session ids the host uses
SessionIDs == {<<"s", "1">>, <<"s", "2">>}

\* configurations with ANSI stripping as the only technique: every update
\* cadence up to 2, and savings logging on and off
SessionConfigs ==
  LET Config(logSavings, showUpdateEvery) ==
        [RtkConfig({"ansiStripping"}, "none",
                   [maxChars |-> 10000, maxLines |-> 200, logSavings |-> logSavings])
           EXCEPT !.showUpdateEvery = showUpdateEvery]
  IN  {Config(TRUE, 2), Config(FALSE, 1), Config(FALSE, 0)}

\* tool calls of both sessions, with and without a reduction
SessionInvocations ==
  {i \in Invocations :
     /\ ~i.args.command.isNull
     /\ i.args.command.text \in {<<"e", "c", "h", "o", " ", "o", "k">>, <<"l", "s">>}
     /\ ~(i.sessionID.isNull /\ i.sessionId.isNull)}

\* the events the host sends: session.idle for either session, each under one
\* spelling of the id field, session.idle without an id, and another type
Events ==
  {[type |-> "session.idle", properties |-> [sessionID |-> Str(<<"s", "1">>), sessionId |-> NotAString]],
   [type |-> "session.idle", properties |-> [sessionID |-> NotAString, sessionId |-> Str(<<"s", "2">>)]],
   [type |-> "session.idle", properties |-> [sessionID |-> NotAString, sessionId |-> NotAString]],
   [type |-> "session.updated", properties |-> [sessionID |-> Str(<<"s", "1">>), sessionId |-> NotAString]]}

\* the input of command.execute.before, which has no sessionId field
Commands ==
  {[command |-> command, sessionID |-> Str(sessionID), sessionId |-> NotAString] :
     command \in {<<"r", "t", "k">>, <<"h", "e", "l", "p">>}, sessionID \in SessionIDs}

handledCommandError == "__RTK_COMMAND_HANDLED__"

\* a filter that lets the records of every session through
RecordsOfAnySession(sessionID) == sessionMetrics

\* sessionMetrics.filter((record) => record.sessionId === sessionID)
RecordsOf(sessionID) ==
  SelectSeq(sessionMetrics,
            LAMBDA record : ~sessionID.isNull /\ record.sessionId = sessionID.text)

\* a counter read that always starts over
GetOrZeroForgets(map, key) == 0

\* map.get(key) || 0
GetOrZero(map, key) == IF key \in DOMAIN map THEN map[key] ELSE 0

\* client.tui.showToast({ body: { title, message, variant } })
Toast(message) == [title |-> "RTK Savings", message |-> message, variant |-> "info"]

\* the sum of the values of a map
RECURSIVE SumOf(_)
SumOf(map) ==
  IF DOMAIN map = {} THEN 0
  ELSE LET key == CHOOSE k \in DOMAIN map : TRUE
       IN  map[key] + SumOf([k \in DOMAIN map \ {key} |-> map[k]])

Traffic == Len(sessionMetrics) + Len(appLog) + Len(toasts) + SumOf(idleEvents)

\* the host calls tool.execute.after again once the previous call is over
NewInvocation ==
  /\ pc = "done"
  /\ Traffic < MaxTraffic
  /\ input' \in SessionInvocations
  /\ output' = input'.output
  /\ pc' = "start"
  /\ original' = <<>>
  /\ result' = <<>>
  /\ technique' = <<>>
  /\ error' = "none"
  /\ fnArgs' = <<>>
  /\ thrown' = "none"
  /\ UNCHANGED <<config, sessionMetrics, appLog, metricsFile, fnRet, idleTurnCounts, toasts,
                 idleEvents, tasks>>

\* a command hook that does not look at the command name
CommandToastsForEveryCommand ==
  /\ pc = "done"
  /\ \E command \in Commands :
       /\ fnArgs' = <<"command.execute.before", command>>
       /\ Traffic < MaxTraffic
       /\ toasts' = Append(toasts,
                           Toast(formatToastSummary(RecordsOf(resolveSessionID(command)))))
       /\ thrown' = handledCommandError
  /\ UNCHANGED <<config, input, output, pc, original, result, technique, error,
                 sessionMetrics, appLog, metricsFile, fnRet, idleTurnCounts, idleEvents, tasks>>

\* 'command.execute.before': the toast and the sentinel error for 'rtk',
\* a plain return for any other command
CommandExecuteBefore ==
  /\ pc = "done"
  /\ \E command \in Commands :
       /\ fnArgs' = <<"command.execute.before", command>>
       /\ IF command.command # <<"r", "t", "k">>
            THEN thrown' = "none" /\ toasts' = toasts
            ELSE /\ Traffic < MaxTraffic
                 /\ toasts' = Append(toasts,
                                     Toast(formatToastSummary(
                                             RecordsOf(resolveSessionID(command)))))
                 /\ thrown' = handledCommandError
  /\ UNCHANGED <<config, input, output, pc, original, result, technique, error,
                 sessionMetrics, appLog, metricsFile, fnRet, idleTurnCounts, idleEvents, tasks>>

\* event: for session.idle of a session that has records, the summary log
\* entry, the idle-turn count and the periodic toast
Event ==
  /\ pc = "done"
  /\ \E event \in Events :
       LET sessionID == resolveSessionID(event.properties)
           sessionRecords == RecordsOf(sessionID)
           turns == GetOrZero(idleTurnCounts, sessionID.text) + 1
           idle == event.type = "session.idle" /\ ~sessionID.isNull
       IN  /\ fnArgs' = <<"event", event>>
           /\ thrown' = "none"
           /\ IF idle
                THEN /\ Traffic < MaxTraffic
                     /\ idleEvents' = (sessionID.text :> GetOrZero(idleEvents, sessionID.text) + 1)
                                        @@ idleEvents
                ELSE idleEvents' = idleEvents
           /\ IF ~idle \/ sessionRecords = <<>>
                THEN UNCHANGED <<appLog, idleTurnCounts, toasts>>
                ELSE /\ appLog' = IF config.logSavings
                                    THEN Append(appLog,
                                                [level |-> "info",
                                                 message |-> formatSessionSummary(sessionRecords)])
                                    ELSE appLog
                     /\ idleTurnCounts' = (sessionID.text :> turns) @@ idleTurnCounts
                     /\ toasts' = IF config.showUpdateEvery > 0
                                       /\ turns % config.showUpdateEvery = 0
                                    THEN Append(toasts, Toast(formatToastSummary(sessionRecords)))
                                    ELSE toasts
  /\ UNCHANGED <<config, input, output, pc, original, result, technique, error,
                 sessionMetrics, metricsFile, fnRet, tasks>>

\* a plugin instance right after construction, before its first hook call
InitSession ==
  /\ config \in SessionConfigs
  /\ input \in SessionInvocations
  /\ output = input.output
  /\ pc = "start"
  /\ original = <<>>
  /\ result = <<>>
  /\ technique = <<>>
  /\ error = "none"
  /\ sessionMetrics = <<>>
  /\ appLog = <<>>
  /\ metricsFile = <<>>
  /\ fnArgs = <<>>
  /\ fnRet = Null
  /\ idleTurnCounts = <<>>
  /\ toasts = <<>>
  /\ idleEvents = <<>>
  /\ thrown = "none"
  /\ tasks = <<>>

NextSession ==
  \/ Next
  \/ NewInvocation
  \/ CommandExecuteBefore
  \/ Event

SpecSession == InitSession /\ [][NextSession]_vars


(***************************************************************************)
(* Properties of the session hooks.  A step of command.execute.before or   *)
(* of event leaves the call in fnArgs; a step of tool.execute.after has    *)
(* fnArgs = <<>> and its call in input.                                    *)
(***************************************************************************)
CommandStep == fnArgs' # <<>> /\ fnArgs'[1] = "command.execute.before"

EventStep == fnArgs' # <<>> /\ fnArgs'[1] = "event"

\* the session the running hook call names, Null when it names none
CalledSession ==
  IF fnArgs = <<>> THEN resolveSessionID(input)
  ELSE IF fnArgs[1] = "event" THEN resolveSessionID(fnArgs[2].properties)
  ELSE resolveSessionID(fnArgs[2])

\* the records of session S, in store order
OwnRecords(S) == SelectSeq(sessionMetrics, LAMBDA record : record.sessionId = S)

\* the idle-turn counter of session S
TurnsOf(S) == IF S \in DOMAIN idleTurnCounts THEN idleTurnCounts[S] ELSE 0

ToastShown == Len(toasts') = Len(toasts) + 1

\* C14: a toast or an idle-time log summary produced by a call of session S is
\* the summary of exactly the records whose sessionId is S, and a call that is
\* not of session S changes neither the records nor the idle-turn counter of S
C14_SessionsIsolated ==
  [][\A S \in SessionIDs :
       IF CalledSession' = Some(S)
         THEN /\ ToastShown =>
                   toasts'[Len(toasts')].message = formatToastSummary(OwnRecords(S))
              /\ (EventStep /\ Len(appLog') = Len(appLog) + 1) =>
                   appLog'[Len(appLog')].message = formatSessionSummary(OwnRecords(S))
         ELSE /\ OwnRecords(S)' = OwnRecords(S)
              /\ TurnsOf(S)' = TurnsOf(S)]_vars

\* both sessions have records, and an idle event of s1 has just shown a toast
\* that counts one reduction
C14_Witness ==
  /\ OwnRecords(<<"s", "1">>) # <<>>
  /\ OwnRecords(<<"s", "2">>) # <<>>
  /\ fnArgs # <<>>
  /\ fnArgs[1] = "event"
  /\ CalledSession = Some(<<"s", "1">>)
  /\ TurnsOf(<<"s", "1">>) = 1
  /\ TurnsOf(<<"s", "2">>) = 0
  /\ toasts # <<>>
  /\ toasts[Len(toasts)].message.reductions = 1

C17_NeverRejects == pc = "done" => thrown = "none"

\* C18: a stage that faults does not end the pipeline; the later stages that are
\* enabled and applicable still run on the text from before the fault, so a text
\* longer than truncation.maxChars is still truncated
C18_TruncationAfterFault ==
  (/\ pc = "done"
   /\ error \in StageLabels \ {"truncate"}
   /\ config.techniques.truncation.enabled
   /\ Len(result) > config.techniques.truncation.maxChars
   /\ truncate(result, config.techniques.truncation.maxChars) # result)
    => "truncate" \in Labels


\* C31: the session store and the metrics log do not diverge on failure: when
\* the invocation is over its record is in the store exactly if its line is in
\* the metrics log, and when the savings log call or the metrics append failed
\* the store holds no record of the invocation and output.output is the
\* original text
C31_StoreMatchesLog ==
  pc = "done" =>
    /\ Len(sessionMetrics) = Len(metricsFile)
    /\ error \in {"client.app.log", "appendMetric"} =>
         sessionMetrics = <<>> /\ output = input.output


\* C19: at a bash stage, a command outside the stage's command table makes
\* filterBuildOutput, aggregateTestOutput, aggregateLinterOutput and
\* compactGitOutput return null, and groupSearchResults returns null for a text
\* without ':', shorter than 50 characters or without a parsable line; a stage
\* whose filter returns null and does not throw leaves text and label chain alone
C19_NullMeansInapplicable ==
  [][(pc \in {"build", "test", "linter", "git", "search"} /\ BashGate) =>
       LET command == input.args.command.text
           filtered == CASE pc = "build" -> filterBuildOutput(result, command)
                         [] pc = "test" -> aggregateTestOutput(result, command)
                         [] pc = "linter" -> aggregateLinterOutput(result, command)
                         [] pc = "git" -> compactGitOutput(result, command)
                         [] pc = "search" -> groupSearchResults(result)
           inapplicable == CASE pc = "build" -> ~isBuildCommand(command)
                             [] pc = "test" -> ~isTestCommand(command)
                             [] pc = "linter" -> ~isLinterCommand(command)
                             [] pc = "git" -> ~isGitCommand(command)
                             [] pc = "search" -> \/ ~Includes(result, <<":">>)
                                                 \/ Len(result) < 50
                                                 \/ parseGrepResults(result) = <<>>
       IN  /\ inapplicable => filtered.isNull
           /\ (filtered.isNull /\ pc' # "catch") => UNCHANGED <<result, technique>>]_vars

\* 'ls' has passed the five bash stages, all enabled: none of the four command
\* tables holds it, its output has no ':', and text and chain are as they were
C19_Witness ==
  /\ pc = "source"
  /\ BashGate
  /\ error = "none"
  /\ input.args.command.text = <<"l", "s">>
  /\ config.techniques.buildOutputFiltering
  /\ config.techniques.testOutputAggregation
  /\ config.techniques.linterAggregation
  /\ config.techniques.gitCompaction
  /\ config.techniques.searchResultGrouping
  /\ groupSearchResults(result).isNull
  /\ result = original
  /\ technique = <<>>


\* C20: for a test command and an output holding the summary line
\* 'test result: FAILED. 5 passed; 2 failed; 0 ignored', aggregateTestOutput
\* returns a summary whose header has the line of the failed count reading
\* '5 failed'
C20_HeaderSaysFiveFailed ==
  (/\ pc = "returned"
   /\ fnArgs[1] = "aggregateTestOutput"
   /\ isTestCommand(fnArgs[3])
   /\ Includes(fnArgs[2], <<"t", "e", "s", "t", " ", "r", "e", "s", "u", "l", "t", ":", " ", "F", "A", "I", "L", "E", "D", ".", " ", "5", " ", "p", "a", "s", "s", "e", "d", ";", " ", "2", " ", "f", "a", "i", "l", "e", "d", ";", " ", "0", " ", "i", "g", "n", "o", "r", "e", "d">>))
    => /\ ~fnRet.isNull
       /\ Includes(fnRet.text, <<"U+274C", " ">> \o <<"5", " ", "f", "a", "i", "l", "e", "d">>)

\* the failing run of the test suite, summarised for 'cargo test'
C20_Witness ==
  /\ pc = "returned"
  /\ fnArgs[1] = "aggregateTestOutput"
  /\ fnArgs[3] = <<"c", "a", "r", "g", "o", " ", "t", "e", "s", "t">>
  /\ Includes(fnArgs[2], <<"t", "e", "s", "t", " ", "r", "e", "s", "u", "l", "t", ":", " ", "F", "A", "I", "L", "E", "D", ".", " ", "5", " ", "p", "a", "s", "s", "e", "d", ";", " ", "2", " ", "f", "a", "i", "l", "e", "d", ";", " ", "0", " ", "i", "g", "n", "o", "r", "e", "d", "\n", "\n", "F", "A", "I", "L", " ", "t", "e", "s", "t", "-", "o", "n", "e">>)
  /\ Includes(fnRet.text, <<"5", " ", "f", "a", "i", "l", "e", "d">>)
  /\ Includes(fnRet.text, <<"F", "a", "i", "l", "u", "r", "e", "s", ":">>)


(***************************************************************************)
(* Properties of the filters called on their own                           *)
(***************************************************************************)
\* the lines of text that satisfy Test
LinesWhere(text, Test(_)) ==
  Bind(Split(text, "\n"), LAMBDA lines : {k \in 1..Len(lines) : Test(lines[k])})

\* /^\s*(Compiling|Checking|Building)\s+/
IsProgressLine(line) ==
  \E w \in {<<"C", "o", "m", "p", "i", "l", "i", "n", "g">>, <<"C", "h", "e", "c", "k", "i", "n", "g">>, <<"B", "u", "i", "l", "d", "i", "n", "g">>} : MatchesProgress(line, w)

\* C21: for a build command and an output without error-start line and without
\* warning line, filterBuildOutput returns the one line
\* '✓ Build successful (N units compiled)', N being the number of Compiling,
\* Checking and Building progress lines; other noise lines are not counted
C21_CleanBuildCountsUnits ==
  (/\ pc = "returned"
   /\ fnArgs[1] = "filterBuildOutput"
   /\ isBuildCommand(fnArgs[3])
   /\ LinesWhere(fnArgs[2], isErrorStart) = {}
   /\ LinesWhere(fnArgs[2], isWarning) = {})
    => fnRet = Some(<<"U+2713">> \o <<" ", "B", "u", "i", "l", "d", " ", "s", "u", "c", "c", "e", "s", "s", "f", "u", "l", " ", "(">>
                      \o NumToStr(Cardinality(LinesWhere(fnArgs[2], IsProgressLine)))
                      \o <<" ", "u", "n", "i", "t", "s", " ", "c", "o", "m", "p", "i", "l", "e", "d", ")">>)

\* the clean build of the test suite: two Compiling lines among noise, '2 units'
C21_Witness ==
  /\ pc = "returned"
  /\ fnArgs[1] = "filterBuildOutput"
  /\ fnArgs[3] = <<"c", "a", "r", "g", "o", " ", "b", "u", "i", "l", "d">>
  /\ Includes(fnArgs[2], <<"D", "o", "w", "n", "l", "o", "a", "d", "i", "n", "g", " ", "s", "o", "m", "e", "-", "d", "e", "p">>)
  /\ Includes(fnArgs[2], <<"F", "i", "n", "i", "s", "h", "e", "d", " ", "d", "e", "v">>)
  /\ Cardinality(LinesWhere(fnArgs[2], IsProgressLine)) = 2
  /\ Includes(fnRet.text, <<"(", "2", " ", "u", "n", "i", "t", "s", " ", "c", "o", "m", "p", "i", "l", "e", "d", ")">>)


\* the positions of the error-start lines among lines
StartsIn(lines) == {p \in 1..Len(lines) : isErrorStart(lines[p])}

\* the k-th smallest member of a set of positions
KthOf(positions, k) ==
  CHOOSE p \in positions : Cardinality({q \in positions : q < p}) = k - 1

\* the first position after p that holds an error-start line or the line
\* '... and K more errors', or the position after the last line
BlockStop(lines, p) ==
  Least({q \in (p + 1)..Len(lines) :
           isErrorStart(lines[q]) \/ StartsWith(lines[q], <<".", ".", ".", " ", "a", "n", "d", " ">>)} \cup {Len(lines) + 1})

\* how many indented, non-blank lines follow position p directly
RECURSIVE IndentedAfter(_, _)
IndentedAfter(lines, p) ==
  IF p + 1 <= Len(lines) /\ lines[p + 1] # <<>> /\ lines[p + 1][1] = " " /\ Trim(lines[p + 1]) # <<>>
    THEN 1 + IndentedAfter(lines, p + 1)
    ELSE 0

\* the report `out` of a build output `lines` with n > 0 error-start lines
ErrorsReported(lines, out, n) ==
  /\ out[1] = <<"U+274C", " ">> \o NumToStr(n) \o <<" ", "e", "r", "r", "o", "r", "(", "s", ")", ":">>
  /\ Cardinality(StartsIn(out)) = Min(n, 5)
  /\ \A k \in 1..Min(n, 5) :
       LET from == KthOf(StartsIn(lines), k)
           p == KthOf(StartsIn(out), k)
       IN  /\ out[p] = lines[from]
           /\ BlockStop(out, p) - p <= 11
           /\ BlockStop(out, p) - p = 11 => out[p + 10] = <<" ", " ", ".", ".", ".">>
           /\ IndentedAfter(lines, from) >= 10 =>
                BlockStop(out, p) - p = 11 /\ out[p + 10] = <<" ", " ", ".", ".", ".">>
           /\ BlockStop(lines, from) - from <= 10 =>
                \A q \in p..(BlockStop(out, p) - 1) : out[q] # <<" ", " ", ".", ".", ".">>
  /\ \A q \in 1..Len(out) :
       StartsWith(out[q], <<".", ".", ".", " ", "a", "n", "d", " ">>) =>
         n > 5 /\ out[q] = <<".", ".", ".", " ", "a", "n", "d", " ">> \o NumToStr(n - 5) \o <<" ", "m", "o", "r", "e", " ", "e", "r", "r", "o", "r", "s">>
  /\ n > 5 => \E q \in 1..Len(out) : StartsWith(out[q], <<".", ".", ".", " ", "a", "n", "d", " ">>)

\* C32: every error-start line of a build output opens one block and every
\* block is reported once, the one open at the end of the input included: the
\* header '❌ N error(s):' has N = the number of error-start lines, the first 5
\* blocks are printed and no other, each with at most 10 lines and '  ...'
\* after them when it is longer, and '... and K more errors' is printed exactly
\* when N > 5, with K = N - 5
C32_ErrorBlocksReported ==
  (/\ pc = "returned"
   /\ fnArgs[1] = "filterBuildOutput"
   /\ isBuildCommand(fnArgs[3])
   /\ StartsIn(Split(fnArgs[2], "\n")) # {})
    => /\ ~fnRet.isNull
       /\ ErrorsReported(Split(fnArgs[2], "\n"), Split(fnRet.text, "\n"),
                         Cardinality(StartsIn(Split(fnArgs[2], "\n"))))

\* more than 5 blocks, the second of them longer than 10 lines, the last one
\* open at the end of the output
C32_Witness ==
  /\ pc = "returned"
  /\ fnArgs[1] = "filterBuildOutput"
  /\ fnArgs[3] = <<"c", "a", "r", "g", "o", " ", "b", "u", "i", "l", "d">>
  /\ Cardinality(StartsIn(Split(fnArgs[2], "\n"))) = 6
  /\ EndsWith(fnArgs[2], <<"e", "r", "r", "o", "r", ":", " ", "e", "6", "\n", " ", " ", "a", "t", " ", "a">>)
  /\ Includes(fnRet.text, <<"U+274C", " ", "6", " ", "e", "r", "r", "o", "r", "(", "s", ")", ":", "\n", "e", "r", "r", "o", "r", ":", " ", "e", "1", "\n", " ", " ", "a", "t", " ", "a", "\n", "e", "r", "r", "o", "r", ":", " ", "e", "2", "\n">>)
  /\ Includes(fnRet.text, <<" ", " ", "a", "t", " ", "a", "\n", " ", " ", ".", ".", ".", "\n", "e", "r", "r", "o", "r", ":", " ", "e", "3", "\n">>)
  /\ EndsWith(fnRet.text, <<"e", "r", "r", "o", "r", ":", " ", "e", "5", "\n", " ", " ", "a", "t", " ", "a", "\n", ".", ".", ".", " ", "a", "n", "d", " ", "1", " ", "m", "o", "r", "e", " ", "e", "r", "r", "o", "r", "s">>)

\* the state of the build line loop after the first n lines
BuildScanned(lines, n) ==
  BuildScan(SubSeq(lines, 1, n), 1,
            [compiled |-> 0, errors |-> <<>>, warnings |-> <<>>,
             inErrorBlock |-> FALSE, currentError |-> <<>>, blankCount |-> 0])

\* the state of the failure line loop after the first n lines
TestScanned(lines, n) ==
  TestScan(SubSeq(lines, 1, n), 1,
           [failures |-> <<>>, inFailure |-> FALSE, currentFailure |-> <<>>, blankCount |-> 0])

\* line i meets the block `held` that is open: a blank line closes it only as
\* the second of two blank lines in a row and with more than 3 lines held, and
\* is appended when it does not close it; another line closes it only when it
\* is neither a continuation line nor a start line
BlockEndsByPolicy(lines, i, held, openAfter, heldAfter, isStart, isContinuation) ==
  IF Trim(lines[i]) = <<>>
    THEN IF openAfter
           THEN heldAfter = Append(held, lines[i])
           ELSE i > 1 /\ Trim(lines[i - 1]) = <<>> /\ Len(held) > 3
    ELSE ~openAfter => ~isStart /\ ~isContinuation

\* C33: in the build and the test block scanner an open block is closed by
\* blank lines only when at least 2 blank lines stand one after the other, no
\* other input line between them, and the block holds more than 3 lines;
\* otherwise the blank line is appended to the block; the only other way a
\* block closes is a non-blank line that is neither a continuation line nor a
\* start line
C33_BlankRunClosesBlock ==
  /\ (pc = "returned" /\ fnArgs[1] = "filterBuildOutput" /\ isBuildCommand(fnArgs[3])) =>
       Bind(Split(fnArgs[2], "\n"), LAMBDA lines :
         \A i \in 1..Len(lines) :
           Bind(BuildScanned(lines, i - 1), LAMBDA before :
             before.inErrorBlock =>
               Bind(BuildLine(before, lines[i]), LAMBDA after :
                 BlockEndsByPolicy(lines, i, before.currentError,
                                   after.inErrorBlock, after.currentError,
                                   isErrorStart(lines[i]),
                                   StartsWith(lines[i], <<" ">>) \/ StartsWith(lines[i], <<"-", "-", ">">>)))))
  /\ (pc = "returned" /\ fnArgs[1] = "aggregateTestOutput" /\ isTestCommand(fnArgs[3])) =>
       Bind(Split(fnArgs[2], "\n"), LAMBDA lines :
         \A i \in 1..Len(lines) :
           Bind(TestScanned(lines, i - 1), LAMBDA before :
             before.inFailure =>
               Bind(TestLine(before, lines[i]), LAMBDA after :
                 BlockEndsByPolicy(lines, i, before.currentFailure,
                                   after.inFailure, after.currentFailure,
                                   isFailureStart(lines[i]),
                                   StartsWith(lines[i], <<" ">>) \/ StartsWith(lines[i], <<"-">>)))))

\* the positions in lines whose line starts with prefix
LinesStarting(lines, prefix) == {p \in 1..Len(lines) : StartsWith(lines[p], prefix)}

\* the last position of the part that starts at position p of `heads`
PartEnd(lines, heads, p) == Least({q \in heads : q > p} \cup {Len(lines) + 1}) - 1

\* how many lines of a diff between from and to stand in a hunk and start with
\* the one-character sign, not with three of them
ChangedLines(lines, from, to, sign) ==
  Cardinality({q \in from..to :
                 /\ StartsWith(lines[q], <<sign>>)
                 /\ ~StartsWith(lines[q], <<sign, sign, sign>>)
                 /\ \E h \in from..(q - 1) : StartsWith(lines[h], <<"@", "@">>)})

\* '  +A -R'
StatLine(added, removed) == <<" ", " ", "+">> \o NumToStr(added) \o <<" ", "-">> \o NumToStr(removed)

\* a line of the form '  +<digit>...'
IsStatLine(line) == Len(line) > 3 /\ StartsWith(line, <<" ", " ", "+">>) /\ line[4] \in Digit

\* the part from..to of the compacted diff, written for a file with `added`
\* added and `removed` removed lines, has the file's '+A -R' line once when the
\* file has changes and not at all when it has none
StatOnce(out, from, to, added, removed) ==
  Bind({q \in from..to : IsStatLine(out[q])}, LAMBDA stats :
    IF added + removed > 0
      THEN Cardinality(stats) = 1 /\ \A q \in stats : out[q] = StatLine(added, removed)
      ELSE stats = {})

\* the compacted diff `out` of the diff `lines`
DiffCompacted(lines, out) ==
  /\ \A k \in 1..Cardinality(LinesStarting(out, <<"U+D83D", "U+DCC4", " ">>)) :
       Bind(KthOf(LinesStarting(lines, <<"d", "i", "f", "f", " ", "-", "-", "g", "i", "t">>), k), LAMBDA from :
       Bind(KthOf(LinesStarting(out, <<"U+D83D", "U+DCC4", " ">>), k), LAMBDA p :
         StatOnce(out, p, PartEnd(out, LinesStarting(out, <<"U+D83D", "U+DCC4", " ">>), p),
                  ChangedLines(lines, from, PartEnd(lines, LinesStarting(lines, <<"d", "i", "f", "f", " ", "-", "-", "g", "i", "t">>), from), "+"),
                  ChangedLines(lines, from, PartEnd(lines, LinesStarting(lines, <<"d", "i", "f", "f", " ", "-", "-", "g", "i", "t">>), from), "-"))))
  /\ \A h \in LinesStarting(out, <<" ", " ", "@", "@">>) :
       Cardinality({q \in (h + 1)..PartEnd(out, LinesStarting(out, <<" ", " ", "@", "@">>) \cup LinesStarting(out, <<"U+D83D", "U+DCC4", " ">>), h) :
                      /\ out[q] # <<>>
                      /\ ~IsStatLine(out[q])
                      /\ ~StartsWith(out[q], <<" ", " ", ".", ".", ".", " ", "(", "t", "r", "u", "n", "c", "a", "t", "e", "d", ")">>)
                      /\ ~StartsWith(out[q], <<".", ".", ".", " ", "(", "m", "o", "r", "e">>)}) <= 10
  /\ \A q \in 1..Len(out) : out[q] = <<".", ".", ".", " ", "(", "m", "o", "r", "e", " ", "c", "h", "a", "n", "g", "e", "s", " ", "t", "r", "u", "n", "c", "a", "t", "e", "d", ")">> => q = Len(out)

\* C34: in compactDiff the '+A -R' line of a file states the number of added
\* and of removed lines that file has in the input, the lines beyond the
\* 10-line hunk cap included; it is printed once for a file with changes; a
\* hunk contributes at most 10 content lines; and when the overall line cap is
\* reached the note '... (more changes truncated)' is the last line
C34_DiffStatsAndCaps ==
  (pc = "returned" /\ fnArgs[1] = "compactDiff")
    => DiffCompacted(Split(fnArgs[2], "\n"), Split(fnRet.text, "\n"))

\* the part of the grouped result written for a file with `count` matches: the
\* file line, at most 10 match lines, and '+N more' for the rest
FileGrouped(out, files, p, count) ==
  Bind(PartEnd(out, files, p), LAMBDA to :
    /\ Cardinality({q \in p..to : StartsWith(out[q], <<" ", " ", " ", " ">>)}) = Min(count, 10)
    /\ \A q \in p..to :
         StartsWith(out[q], <<" ", " ", "+">>) =>
           count > 10 /\ out[q] = <<" ", " ", "+">> \o NumToStr(count - 10) \o <<" ", "m", "o", "r", "e">>
    /\ count > 10 => \E q \in p..to : StartsWith(out[q], <<" ", " ", "+">>))

\* the grouped result `out` of the parsed lines `results`
SearchGrouped(results, out) ==
  Bind(LinesStarting(out, <<"U+D83D", "U+DCC4", " ">>), LAMBDA files :
  Bind(Cardinality(LinesStarting(out, <<" ", " ", " ", " ">>)), LAMBDA shown :
    /\ StartsWith(out[1], <<"U+D83D", "U+DD0D", " ">> \o NumToStr(Len(results)) \o <<" ", "m", "a", "t", "c", "h", "e", "s", " ", "i", "n", " ">>)
    /\ \A p \in files : \A q \in files : p < q => StringLess(out[p], out[q])
    /\ \A p \in files :
         \E k \in 1..Len(results) :
           Bind(Len(SelectSeq(results, LAMBDA r : r.file = results[k].file)), LAMBDA count :
             /\ out[p] = <<"U+D83D", "U+DCC4", " ">> \o results[k].file \o <<" ", "(">> \o NumToStr(count) \o <<" ", "m", "a", "t", "c", "h", "e", "s", ")", ":">>
             /\ FileGrouped(out, files, p, count))
    /\ shown <= 30
    /\ \A q \in 1..Len(out) :
         StartsWith(out[q], <<".", ".", ".", " ", "+">>) =>
           /\ shown < Len(results)
           /\ out[q] = <<".", ".", ".", " ", "+">> \o NumToStr(Len(results) - shown) \o <<" ", "m", "o", "r", "e", " ", "m", "a", "t", "c", "h", "e", "s">>
    /\ shown < Len(results) => \E q \in 1..Len(out) : StartsWith(out[q], <<".", ".", ".", " ", "+">>)))

\* C35: in groupSearchResults the header total is the number of parsed lines,
\* the files are listed in sorted order, each file shows at most maxPerFile
\* (10) matches and '+N more' for the rest, the match lines shown over the
\* whole result never exceed maxResults (30), and '... +N more matches' is
\* printed exactly when matches were left out, with shown + N = total
C35_SearchCaps ==
  (pc = "returned" /\ fnArgs[1] = "groupSearchResults" /\ ~fnRet.isNull)
    => SearchGrouped(parseGrepResults(fnArgs[2]), Split(fnRet.text, "\n"))

\* the text without the newlines that come fourth or later in a run of
\* newlines: a run of 3 or more blank lines becomes 2 blank lines, a shorter
\* run stays
BlankRunsCapped(s) ==
  Bind(SelectSeq([i \in 1..Len(s) |-> i],
                 LAMBDA i : ~(/\ i > 3
                              /\ s[i] = "\n" /\ s[i - 1] = "\n"
                              /\ s[i - 2] = "\n" /\ s[i - 3] = "\n")),
       LAMBDA kept : [k \in 1..Len(kept) |-> s[kept[k]]])

\* a text without a character of a comment or docstring marker
WithoutMarkers(s) == \A i \in 1..Len(s) : s[i] \notin {"#", "/", "*", "\""}

\* C36: filterMinimal turns every run of 3 or more blank lines into exactly 2
\* blank lines and leaves a run of 1 or 2 blank lines as it is, the whole text
\* being trimmed; for language 'unknown' it returns its input
C36_BlankRunsCollapsed ==
  (pc = "returned" /\ fnArgs[1] = "filterMinimal")
    => IF fnArgs[3] = "unknown" THEN fnRet = Some(fnArgs[2])
       ELSE WithoutMarkers(fnArgs[2]) => fnRet = Some(Trim(BlankRunsCapped(fnArgs[2])))

\* the line without its line comment: the text before the first marker, its
\* end trimmed
WithoutLineComment(line, marker) ==
  IF Includes(line, marker) THEN TrimEnd(Slice(line, 0, IndexOf(line, marker))) ELSE line

\* a source line that is a comment or docstring of its own, opened and closed
\* on the line
OneLiner(line, opening, closing) ==
  /\ StartsWith(Trim(line), opening)
  /\ EndsWith(Trim(line), closing)
  /\ Len(Trim(line)) >= Len(opening) + Len(closing)

\* the non-blank lines, trimmed
NonBlankLines(lines) ==
  SelectSeq([k \in 1..Len(lines) |-> Trim(lines[k])], LAMBDA line : line # <<>>)

\* Python lines without their comments: a docstring line stays, another line
\* loses its '#' comment
PythonWithoutComments(lines) ==
  [k \in 1..Len(lines) |->
     IF StartsWith(Trim(lines[k]), <<"\"", "\"", "\"">>) THEN lines[k]
     ELSE WithoutLineComment(lines[k], <<"#">>)]

\* C-family lines without their comments: a block comment line goes, another
\* line loses its '//' comment
CFamilyWithoutComments(lines) ==
  [k \in 1..Len(lines) |->
     IF StartsWith(Trim(lines[k]), <<"/", "*">>) THEN <<>>
     ELSE WithoutLineComment(lines[k], <<"/", "/">>)]

\* C37: filterMinimal removes the comments and nothing else. In Python, where
\* every docstring is opened and closed on its line, each '#' comment is
\* removed, also on the lines after a docstring; in a C-family language, where
\* every block comment is opened and closed on its line, the block comments and
\* '//' comments are removed and the lines after a block comment stay; the code
\* that is no comment is kept, line by line
C37_OnlyCommentsRemoved ==
  (pc = "returned" /\ fnArgs[1] = "filterMinimal" /\ fnArgs[3] \in {"python", "typescript"})
    => Bind(Split(fnArgs[2], "\n"), LAMBDA lines :
         IF fnArgs[3] = "python"
           THEN (\A k \in 1..Len(lines) :
                   StartsWith(Trim(lines[k]), <<"\"", "\"", "\"">>)
                     => OneLiner(lines[k], <<"\"", "\"", "\"">>, <<"\"", "\"", "\"">>))
                  => NonBlankLines(Split(fnRet.text, "\n"))
                       = NonBlankLines(PythonWithoutComments(lines))
           ELSE (\A k \in 1..Len(lines) :
                   Includes(lines[k], <<"/", "*">>) => OneLiner(lines[k], <<"/", "*">>, <<"*", "/">>))
                  => NonBlankLines(Split(fnRet.text, "\n"))
                       = NonBlankLines(CFamilyWithoutComments(lines)))

\* how many blocks are open before line k: the '{' less the '}' of the lines before it
BraceDepth(lines, k) ==
  Bind(Join(SubSeq(lines, 1, k - 1), <<"\n">>), LAMBDA before :
    CountOf(before, "{") - CountOf(before, "}"))

\* the statement lines of the bodies: the lines inside a block but the lines
\* that are a brace only
BodyStatements(lines) ==
  {lines[k] : k \in {j \in 1..Len(lines) :
                       BraceDepth(lines, j) >= 1 /\ Trim(lines[j]) \notin {<<"{">>, <<"}">>}}}

\* the positions of the signature lines
SignaturesIn(lines) ==
  {p \in 1..Len(lines) :
     /\ MatchesSignature(Trim(lines[p]))
     /\ ~MatchesImport(Trim(lines[p]))
     /\ ~MatchesExport(Trim(lines[p]))}

\* the skeleton `out` of the source `lines`, every signature of which has a body
BodiesReplaced(lines, out) ==
  /\ \A k \in 1..Len(lines) :
       MatchesImport(Trim(lines[k])) \/ MatchesExport(Trim(lines[k]))
         => \E q \in 1..Len(out) : out[q] = lines[k]
  /\ Cardinality(SignaturesIn(out)) = Cardinality(SignaturesIn(lines))
  /\ \A p \in SignaturesIn(out) :
       \E q \in (p + 1)..Len(out) :
         /\ Trim(out[q]) = <<"}">>
         /\ \A r \in (p + 1)..(q - 1) : Trim(out[r]) # <<"}">>
         /\ Cardinality({r \in (p + 1)..(q - 1) : Trim(out[r]) = <<"/", "/", " ", ".", ".", ".">>}) = 1
  /\ \A q \in 1..Len(out) : out[q] \notin BodyStatements(lines)

\* C38: filterAggressive replaces each retained function body with exactly one
\* placeholder line: between a retained signature and its closing brace the
\* output holds exactly one '// ...' line, with the opening brace on the
\* signature line or on the next line, with or without nested blocks in the
\* body; import and export lines are kept and no statement line of a body is
C38_OnePlaceholderPerBody ==
  (pc = "returned" /\ fnArgs[1] = "filterAggressive" /\ fnArgs[3] # "unknown")
    => BodiesReplaced(Split(fnArgs[2], "\n"), Split(fnRet.text, "\n"))

\* the lines of `out` that are lines of the source `lines`
RetainedIn(lines, out) ==
  {q \in 1..Len(out) : \E k \in 1..Len(lines) : lines[k] = out[q]}

\* the result `out` of smartTruncate on the source `lines` under `maxLines`
SmartTruncated(lines, out, maxLines) ==
  /\ \A k \in 1..Len(lines) :
       isImportantLine(lines[k]) => \E q \in 1..Len(out) : out[q] = lines[k]
  /\ 2 * Cardinality({q \in RetainedIn(lines, out) : ~isImportantLine(out[q])}) <= maxLines + 1
  /\ Len(out) <= maxLines

\* C39: smartTruncate returns the content unchanged when it has at most
\* maxLines lines; otherwise every important line of the input is in the
\* output wherever it stands, the other lines are kept only until half the
\* budget is used, and the output has at most maxLines lines
C39_ImportantLinesRetained ==
  (pc = "returned" /\ fnArgs[1] = "smartTruncate")
    => Bind(Split(fnArgs[2], "\n"), LAMBDA lines :
         IF Len(lines) <= fnArgs[3] THEN fnRet = Some(fnArgs[2])
         ELSE SmartTruncated(lines, Split(fnRet.text, "\n"), fnArgs[3]))

\* the place in the source of a retained line; the lines of a source all differ
PlaceOf(lines, line) == CHOOSE k \in 1..Len(lines) : lines[k] = line

OmittedMarker(n) == <<" ", " ", " ", " ", "/", "/", " ", ".", ".", ".", " ">> \o NumToStr(n) \o <<" ", "l", "i", "n", "e", "s", " ", "o", "m", "i", "t", "t", "e", "d">>

FinalMarker(n, total) ==
  <<"/", "/", " ", ".", ".", ".", " ">> \o NumToStr(n) \o <<" ", "m", "o", "r", "e", " ", "l", "i", "n", "e", "s", " ", "(", "t", "o", "t", "a", "l", ":", " ">> \o NumToStr(total) \o <<")">>

\* the markers of `out` count the lines of the source `lines` that they stand for
MarkersExact(lines, out) ==
  /\ \A q \in 2..(Len(out) - 1) :
       (q - 1 \in RetainedIn(lines, out) /\ q + 1 \in RetainedIn(lines, out)
          /\ EndsWith(out[q], <<" ", "l", "i", "n", "e", "s", " ", "o", "m", "i", "t", "t", "e", "d">>))
         => out[q] = OmittedMarker(PlaceOf(lines, out[q + 1]) - PlaceOf(lines, out[q - 1]) - 1)
  /\ StartsWith(out[Len(out)], <<"/", "/", " ", ".", ".", ".", " ">>)
       => out[Len(out)] = FinalMarker(Len(lines) - Cardinality(RetainedIn(lines, out)), Len(lines))

\* C40: the markers of smartTruncate are exact: each '... N lines omitted'
\* marker states how many input lines were dropped in the run it replaces, and
\* the final '... N more lines (total: T)' marker has T the number of input
\* lines and N the number of input lines that are not retained in the output
C40_MarkersExact ==
  (pc = "returned" /\ fnArgs[1] = "smartTruncate" /\ Len(Split(fnArgs[2], "\n")) > fnArgs[3])
    => MarkersExact(Split(fnArgs[2], "\n"), Split(fnRet.text, "\n"))

\* the porcelain lines of a status output that fall in a class, the class being
\* a test of the two-character code XY
PorcelainLines(text, InClass(_, _)) ==
  Bind(StatusEntries(Split(text, "\n")),
       LAMBDA entries : {k \in 1..Len(entries) : InClass(entries[k][1], entries[k][2])})

\* the summary has the bucket line 'label N files' when N > 0, and no line of
\* that bucket when N = 0
BucketReports(text, label, n) ==
  IF n > 0 THEN Includes(text, label \o NumToStr(n) \o <<" ", "f", "i", "l", "e", "s">>)
  ELSE ~Includes(text, label)

\* C22: compactStatus counts a line as staged when X is one of M, A, D, R, C, as
\* untracked when the code is '??', as a conflict when U is in either column,
\* as modified when Y is M or D; a summary with no bucket and no branch line,
\* that of the empty output in particular, is 'Clean working tree'
C22_StatusClasses ==
  (pc = "returned" /\ fnArgs[1] = "compactStatus") =>
    /\ BucketReports(fnRet.text, <<"S", "t", "a", "g", "e", "d", ":", " ">>,
         Cardinality(PorcelainLines(fnArgs[2],
           LAMBDA x, y : x \in {"M", "A", "D", "R", "C"})))
    /\ BucketReports(fnRet.text, <<"U", "n", "t", "r", "a", "c", "k", "e", "d", ":", " ">>,
         Cardinality(PorcelainLines(fnArgs[2], LAMBDA x, y : x = "?" /\ y = "?")))
    /\ BucketReports(fnRet.text, <<"C", "o", "n", "f", "l", "i", "c", "t", "s", ":", " ">>,
         Cardinality(PorcelainLines(fnArgs[2], LAMBDA x, y : x = "U" \/ y = "U")))
    /\ BucketReports(fnRet.text, <<"M", "o", "d", "i", "f", "i", "e", "d", ":", " ">>,
         Cardinality(PorcelainLines(fnArgs[2], LAMBDA x, y : y \in {"M", "D"})))
    /\ (/\ PorcelainLines(fnArgs[2], LAMBDA x, y :
             \/ x \in {"M", "A", "D", "R", "C", "U"}
             \/ y \in {"M", "D", "U"}
             \/ (x = "?" /\ y = "?")) = {}
        /\ ~StartsWith(fnArgs[2], <<"O", "n", " ", "b", "r", "a", "n", "c", "h", " ">>))
         => fnRet.text = <<"C", "l", "e", "a", "n", " ", "w", "o", "r", "k", "i", "n", "g", " ", "t", "r", "e", "e">>


\* C23: compactGitOutput goes by the subcommand the command starts with:
\* 'git diff' gives the diff compaction, 'git status' the status compaction,
\* 'git log' the log compaction, whatever the arguments; any other command
\* gives null
C23_DispatchOnSubcommand ==
  (pc = "returned" /\ fnArgs[1] = "compactGitOutput") =>
    fnRet = IF StartsWith(ToLowerCase(fnArgs[3]), <<"g", "i", "t", " ", "d", "i", "f", "f">>)
              THEN Some(compactDiff(fnArgs[2]))
            ELSE IF StartsWith(ToLowerCase(fnArgs[3]), <<"g", "i", "t", " ", "s", "t", "a", "t", "u", "s">>)
              THEN Some(compactStatus(fnArgs[2]))
            ELSE IF StartsWith(ToLowerCase(fnArgs[3]), <<"g", "i", "t", " ", "l", "o", "g">>)
              THEN Some(compactLog(fnArgs[2]))
            ELSE Null


\* obj has the property at the end of path, a sequence of property names
RECURSIVE Names(_, _)
Names(obj, path) ==
  IF path = <<>> THEN TRUE
  ELSE /\ Head(path) \in DOMAIN obj
       /\ Names(obj[Head(path)], Tail(path))

\* the value at the end of path in obj
RECURSIVE At(_, _)
At(obj, path) == IF path = <<>> THEN obj ELSE At(obj[Head(path)], Tail(path))

\* the paths of the fields of an RtkConfig that hold a value
ConfigFields ==
  {<<"enabled">>, <<"logSavings">>, <<"showUpdateEvery">>,
   <<"techniques", "truncation", "enabled">>, <<"techniques", "truncation", "maxChars">>,
   <<"techniques", "smartTruncation", "enabled">>,
   <<"techniques", "smartTruncation", "maxLines">>,
   <<"techniques", "sourceCodeFiltering">>}
    \cup {<<"techniques", flag>> : flag \in TechniqueFlags \ {"truncation", "smartTruncation"}}

\* C24: mergeConfig changes only what the override names: a field the override
\* does not give keeps the value of the base, also inside truncation and
\* smartTruncation when the override gives the sibling only; a field it gives,
\* other than showUpdateEvery, takes the override's value; merging {} gives
\* the base
C24_MergeKeepsUnnamedFields ==
  (pc = "returned" /\ fnArgs[1] = "mergeConfig") =>
    /\ \A path \in ConfigFields :
         /\ Names(fnRet, path)
         /\ IF ~Names(fnArgs[3], path) THEN At(fnRet, path) = At(fnArgs[2], path)
            ELSE path # <<"showUpdateEvery">> => At(fnRet, path) = At(fnArgs[3], path)
    /\ fnArgs[3] = EmptyObject => fnRet = fnArgs[2]

\* the override { techniques: { truncation: { maxChars: 5000 } } } merged into
\* the defaults: maxChars is 5000 and truncation stays enabled
C24_Witness ==
  /\ pc = "returned"
  /\ fnArgs[1] = "mergeConfig"
  /\ fnArgs[2] = DEFAULT_CONFIG
  /\ fnArgs[3] = [techniques |-> [truncation |-> [maxChars |-> 5000]]]
  /\ fnRet.techniques.truncation = [enabled |-> TRUE, maxChars |-> 5000]

\* C25: mergeConfig takes a negative integer showUpdateEvery as 0 and a
\* non-negative integer as it is, and keeps the base's value for a number that
\* is not an integer and for a value that is not a number; the merged value is
\* a non-negative integer when the base's is
C25_ShowUpdateEveryNormalized ==
  (pc = "returned" /\ fnArgs[1] = "mergeConfig") =>
    /\ fnRet.showUpdateEvery \in Nat
    /\ Names(fnArgs[3], <<"showUpdateEvery">>) =>
         Bind(fnArgs[3].showUpdateEvery, LAMBDA raw :
           fnRet.showUpdateEvery =
             IF raw.type # "number" \/ raw.tenths % 10 # 0 THEN fnArgs[2].showUpdateEvery
             ELSE IF raw.tenths < 0 THEN 0
             ELSE raw.tenths \div 10)

\* a negative integer was merged as 0
C25_Witness ==
  /\ pc = "returned"
  /\ fnArgs[1] = "mergeConfig"
  /\ Names(fnArgs[3], <<"showUpdateEvery">>)
  /\ fnArgs[3].showUpdateEvery = JsNumber(-20)
  /\ fnArgs[2].showUpdateEvery = 4
  /\ fnRet.showUpdateEvery = 0


\* the sum of a field over the records of one technique
RECURSIVE SumOfTechnique(_, _, _)
SumOfTechnique(records, name, field) ==
  IF records = <<>> THEN 0
  ELSE (IF Head(records).technique = name THEN Head(records)[field] ELSE 0)
         + SumOfTechnique(Tail(records), name, field)

\* the distinct techniques of a list of records
TechniquesIn(records) == {records[i].technique : i \in 1..Len(records)}

\* C26: formatToastSummary lists at most 5 techniques, each once with the
\* savings of its summed original and filtered characters, in non-increasing
\* order of those savings and ahead of every technique it leaves out; the
\* '...and N more' line is there exactly when the records have more than 5
\* distinct techniques, N being their number minus 5; the total line gives the
\* number of records
C26_ToastListsTopFive ==
  (pc = "returned" /\ fnArgs[1] = "formatToastSummary" /\ fnArgs[2] # <<>>) =>
    /\ Len(fnRet.lines) = Min(5, Cardinality(TechniquesIn(fnArgs[2])))
    /\ \A i \in 1..Len(fnRet.lines) :
         /\ fnRet.lines[i].technique \in TechniquesIn(fnArgs[2])
         /\ fnRet.lines[i].savings =
              calculateSavings(
                SumOfTechnique(fnArgs[2], fnRet.lines[i].technique, "originalChars"),
                SumOfTechnique(fnArgs[2], fnRet.lines[i].technique, "filteredChars"))
         /\ \A j \in 1..Len(fnRet.lines) :
              /\ i < j => fnRet.lines[i].savings >= fnRet.lines[j].savings
              /\ i # j => fnRet.lines[i].technique # fnRet.lines[j].technique
         /\ \A name \in TechniquesIn(fnArgs[2]) :
              (\A j \in 1..Len(fnRet.lines) : fnRet.lines[j].technique # name) =>
                fnRet.lines[i].savings >=
                  calculateSavings(SumOfTechnique(fnArgs[2], name, "originalChars"),
                                   SumOfTechnique(fnArgs[2], name, "filteredChars"))
    /\ fnRet.more = Max(0, Cardinality(TechniquesIn(fnArgs[2])) - 5)
    /\ fnRet.reductions = Len(fnArgs[2])

\* seven records of six techniques, the technique recorded twice listed first
\* and the one recorded second not listed second: five lines, one technique
\* left out
C26_Witness ==
  /\ pc = "returned"
  /\ fnArgs[1] = "formatToastSummary"
  /\ Len(fnArgs[2]) = 7
  /\ Cardinality(TechniquesIn(fnArgs[2])) = 6
  /\ Len(fnRet.lines) = 5
  /\ fnRet.more = 1
  /\ fnRet.lines[1].count = 2
  /\ fnRet.lines[2].technique # fnArgs[2][2].technique
  /\ fnRet.lines[2].savings > fnRet.lines[5].savings



\* the issues a linter call parsed, in the order of their lines
ParsedIssues(output_, command) ==
  Bind(Split(output_, "\n"), LAMBDA lines :
    SelectSeq([k \in 1..Len(lines) |-> parseIssue(lines[k], detectLinterType(command))],
              LAMBDA x : ~x.isNull))

\* how many of the issues have the value `key` in `field`
IssuesWith(issues, field, key) ==
  Cardinality({k \in 1..Len(issues) : issues[k][field] = key})

\* the values of `field` among the issues
ValuesOf(issues, field) == {issues[k][field] : k \in 1..Len(issues)}

\* the lines of a report from the one after `from` up to the next blank line
SectionAfter(lines, from) ==
  SubSeq(lines, from + 1,
         Least({k \in (from + 1)..(Len(lines) + 1) : k > Len(lines) \/ lines[k] = <<>>}) - 1)

\* a section is made of the entries of `shown`, which Format turns into lines,
\* in non-increasing order of Count, none twice and none behind an entry left
\* out, at most `cap` of all `keys`; when keys are left out, and only then, the
\* line Marker(number left out) follows
CappedList(section, keys, cap, Format(_), Count(_), Marker(_)) ==
  Bind(Min(cap, Cardinality(keys)), LAMBDA shown :
    /\ Len(section) = shown + (IF Cardinality(keys) > cap THEN 1 ELSE 0)
    /\ \A i \in 1..shown :
         /\ \E key \in keys : section[i] = Format(key)
         /\ \A key \in keys :
              section[i] = Format(key) =>
                /\ \A j \in (i + 1)..shown :
                     \A other \in keys :
                       section[j] = Format(other) => Count(key) >= Count(other) /\ other # key
                /\ \A other \in keys :
                     (\A j \in 1..shown : section[j] # Format(other)) =>
                       Count(key) >= Count(other)
    /\ Cardinality(keys) > cap =>
         section[shown + 1] = Marker(Cardinality(keys) - cap))

\* the lines of the report that belong to one file: its own line, its rules
FileBlocks(section) ==
  Bind(SelectSeq([k \in 1..Len(section) |-> k], LAMBDA k : section[k][3] # " "),
       LAMBDA starts :
         [b \in 1..Len(starts) |->
            SubSeq(section, starts[b],
                   IF b < Len(starts) THEN starts[b + 1] - 1 ELSE Len(section))])

HeaderLines(passed, failed, skipped) ==
  <<<<"U+D83D", "U+DCCB">> \o <<" ", "T", "e", "s", "t", " ", "R", "e", "s", "u", "l", "t", "s", ":">>,
    <<" ", " ", " ", "U+2705", " ">> \o NumToStr(passed) \o <<" ", "p", "a", "s", "s", "e", "d">>>>
    \o (IF failed > 0
        THEN <<<<" ", " ", " ", "U+274C", " ">> \o NumToStr(failed) \o <<" ", "f", "a", "i", "l", "e", "d">>>>
        ELSE <<>>)
    \o (IF skipped > 0
        THEN <<<<" ", " ", " ", "U+23ED", "U+FE0F", " ", " ">> \o NumToStr(skipped)
                 \o <<" ", "s", "k", "i", "p", "p", "e", "d">>>>
        ELSE <<>>)

\* C28: for a test command and an output whose summary line follows one of the
\* count templates (Rust 'test result: <word>. P passed; F failed;',
\* 'P passed, F failed, S skipped', 'P pass, F fail, S skip',
\* 'Tests: P passed, F failed, S skipped'), the header of the summary reports P
\* as passed, F as failed and S as skipped (no skipped count in the Rust
\* template), whatever the wording of the labels
C28_HeaderReportsCounts ==
  (pc = "returned" /\ fnArgs[1] = "aggregateTestOutput" /\ isTestCommand(fnArgs[3])) =>
    \A runner \in TestRunners, counts \in TestCounts :
      fnArgs[2] = SummaryLine(runner, counts[1], counts[2], counts[3]) =>
        Bind(HeaderLines(counts[1], counts[2], IF runner = "rust" THEN 0 ELSE counts[3]),
             LAMBDA header :
               Bind(Split(fnRet.text, "\n"), LAMBDA lines :
                 /\ Len(lines) >= Len(header)
                 /\ SubSeq(lines, 1, Len(header)) = header
                 /\ Len(lines) > Len(header) => lines[Len(header) + 1] = <<>>))


(***************************************************************************)
(* Hook calls in flight at once.  The host does not wait for a call of     *)
(* tool.execute.after or of event to settle before it makes the next one;  *)
(* a call runs alone from one await to the next, and the awaited host and  *)
(* file system calls resolve in any order.  No call fails here.            *)
(***************************************************************************)
\* how many hook calls are in flight together
MaxTasks == 3

\* configurations with ANSI stripping as the only technique, with and without
\* savings logging, a toast on every idle turn or on every second
ConcurrentConfigs ==
  {[RtkConfig({"ansiStripping"}, "none",
              [maxChars |-> 10000, maxLines |-> 200, logSavings |-> logSavings])
      EXCEPT !.showUpdateEvery = every] :
     logSavings \in BOOLEAN, every \in {1, 2}}

\* a hook call the host has made and that has not started to run
Task(hook, input_) == [hook |-> hook, input |-> input_, pc |-> "called", locals |-> <<>>]

\* the kinds of call the host makes: tool.execute.after with a text that no
\* filter changes, tool.execute.after for the first and for the second session
\* with a text that ANSI stripping shortens, session.idle for the first session
TaskKinds == {"unchanged", "s1", "s2", "idle"}

\* the k-th call when it is of the given kind; a shortened text is the k-th call's own
TaskOf(kind, k) ==
  CASE kind = "unchanged" ->
         Task("tool.execute.after", Bash(<<"l", "s">>, <<"a", ".", "t", "x", "t">>))
    [] kind \in {"s1", "s2"} ->
         Task("tool.execute.after",
              Invocation("bash", Str(<<"e", "c", "h", "o", " ", "o", "k">>), NotAString,
                         Str(<<"s", IF kind = "s1" THEN "1" ELSE "2">>), NotAString,
                         Str(<<"ESC", "[", "0", "m">> \o [j \in 1..k |-> "a"])))
    [] OTHER ->
         Task("event", [type |-> "session.idle",
                        properties |-> [sessionID |-> Str(<<"s", "1">>), sessionId |-> NotAString]])

\* the calls in flight are numbered by kind, in the order of TaskKinds above;
\* the number of a call is its name only, any of the calls takes the next step
KindOrder(kind) ==
  CASE kind = "unchanged" -> 1 [] kind = "s1" -> 2 [] kind = "s2" -> 3 [] OTHER -> 4

\* the position of task i becomes `to`, its local constants `locals`
Moved(i, to, locals) == [tasks EXCEPT ![i].pc = to, ![i].locals = locals]

\* what the concurrent hooks never touch: the variables of the single call
SingleCallVars ==
  <<config, input, output, pc, original, result, technique, error, fnArgs, fnRet,
    idleEvents, thrown>>

\* 'tool.execute.after' from its start to its first await: the guard, ANSI
\* stripping (the other techniques are off), and recordAndLog up to the await of
\* client.app.log or, without a log entry, of mkdir in appendMetric
ToolCallStarts ==
  \E i \in DOMAIN tasks :
    LET call == tasks[i].input
        original_ == call.output.text
        result_ == IF config.techniques.ansiStripping THEN stripAnsiFast(original_)
                   ELSE original_
        sessionID == resolveSessionID(call)
        record == [sessionId |-> sessionID.text,
                   tool |-> call.tool,
                   technique |-> <<"ansi-stripping">>,
                   originalChars |-> Len(original_),
                   filteredChars |-> Len(result_),
                   savingsPercent |-> savingsPercent(Len(original_), Len(result_))]
    IN  /\ tasks[i].hook = "tool.execute.after"
        /\ tasks[i].pc = "called"
        /\ IF Truthy(call.output) /\ result_ # original_ /\ ~sessionID.isNull
             THEN /\ sessionMetrics' = Append(sessionMetrics, record)
                  /\ IF config.logSavings /\ record.savingsPercent > 0
                       THEN /\ appLog' = Append(appLog, [level |-> "info", tool |-> record.tool,
                                                         technique |-> record.technique,
                                                         savingsPercent |-> record.savingsPercent])
                            /\ tasks' = Moved(i, "await client.app.log", <<record>>)
                       ELSE /\ appLog' = appLog
                            /\ tasks' = Moved(i, "await mkdir", <<record>>)
             ELSE /\ tasks' = Moved(i, "settled", <<>>)
                  /\ UNCHANGED <<sessionMetrics, appLog>>
        /\ UNCHANGED <<metricsFile, idleTurnCounts, toasts>>
        /\ UNCHANGED SingleCallVars

\* recordAndLog after client.app.log resolved: appendMetric is called and
\* awaits mkdir (plugin.ts:93, metrics.ts appendMetric)
SavingsLogResolves ==
  \E i \in DOMAIN tasks :
    /\ tasks[i].hook = "tool.execute.after"
    /\ tasks[i].pc = "await client.app.log"
    /\ tasks' = Moved(i, "await mkdir", tasks[i].locals)
    /\ UNCHANGED <<sessionMetrics, appLog, metricsFile, idleTurnCounts, toasts>>
    /\ UNCHANGED SingleCallVars

\* appendMetric after mkdir resolved: appendFile is called and awaited
MkdirResolves ==
  \E i \in DOMAIN tasks :
    /\ tasks[i].pc = "await mkdir"
    /\ tasks' = Moved(i, "await appendFile", tasks[i].locals)
    /\ UNCHANGED <<sessionMetrics, appLog, metricsFile, idleTurnCounts, toasts>>
    /\ UNCHANGED SingleCallVars

\* appendFile wrote the line of the call's record and resolved: the call settles
AppendFileResolves ==
  \E i \in DOMAIN tasks :
    /\ tasks[i].pc = "await appendFile"
    /\ metricsFile' = Append(metricsFile, tasks[i].locals[1])
    /\ tasks' = Moved(i, "settled", tasks[i].locals)
    /\ UNCHANGED <<sessionMetrics, appLog, idleTurnCounts, toasts>>
    /\ UNCHANGED SingleCallVars

\* an idle turn that reads the counter and does not write it back
CountTurnWithoutSet(i, sessionID, sessionRecords) ==
  LET turns == GetOrZero(idleTurnCounts, sessionID) + 1
  IN  /\ idleTurnCounts' = idleTurnCounts
      /\ IF config.showUpdateEvery > 0 /\ turns % config.showUpdateEvery = 0
           THEN /\ toasts' = Append(toasts, Toast(formatToastSummary(sessionRecords)))
                /\ tasks' = Moved(i, "await client.tui.showToast", sessionRecords)
           ELSE /\ toasts' = toasts
                /\ tasks' = Moved(i, "settled", sessionRecords)

\* event from the idle-turn count to its end or to the await of showToast
\* (plugin.ts:291-302)
CountTurn(i, sessionID, sessionRecords) ==
  LET turns == GetOrZero(idleTurnCounts, sessionID) + 1
  IN  /\ idleTurnCounts' = (sessionID :> turns) @@ idleTurnCounts
      /\ IF config.showUpdateEvery > 0 /\ turns % config.showUpdateEvery = 0
           THEN /\ toasts' = Append(toasts, Toast(formatToastSummary(sessionRecords)))
                /\ tasks' = Moved(i, "await client.tui.showToast", sessionRecords)
           ELSE /\ toasts' = toasts
                /\ tasks' = Moved(i, "settled", sessionRecords)

\* event from its start to its first await: the early returns, the records of
\* the session, and the summary log entry when savings are logged
EventStarts ==
  \E i \in DOMAIN tasks :
    LET event == tasks[i].input
        sessionID == resolveSessionID(event.properties)
        sessionRecords == RecordsOf(sessionID)
    IN  /\ tasks[i].hook = "event"
        /\ tasks[i].pc = "called"
        /\ IF event.type # "session.idle" \/ sessionID.isNull \/ sessionRecords = <<>>
             THEN /\ tasks' = Moved(i, "returned", <<>>)
                  /\ UNCHANGED <<appLog, idleTurnCounts, toasts>>
             ELSE IF config.logSavings
               THEN /\ appLog' = Append(appLog,
                                        [level |-> "info",
                                         message |-> formatSessionSummary(sessionRecords)])
                    /\ tasks' = Moved(i, "await client.app.log", sessionRecords)
                    /\ UNCHANGED <<idleTurnCounts, toasts>>
               ELSE /\ appLog' = appLog
                    /\ CountTurn(i, sessionID.text, sessionRecords)
        /\ UNCHANGED <<sessionMetrics, metricsFile>>
        /\ UNCHANGED SingleCallVars

\* event after client.app.log resolved
SummaryLogResolves ==
  \E i \in DOMAIN tasks :
    /\ tasks[i].hook = "event"
    /\ tasks[i].pc = "await client.app.log"
    /\ CountTurn(i, resolveSessionID(tasks[i].input.properties).text, tasks[i].locals)
    /\ UNCHANGED <<sessionMetrics, appLog, metricsFile>>
    /\ UNCHANGED SingleCallVars

\* event after client.tui.showToast resolved
ShowToastResolves ==
  \E i \in DOMAIN tasks :
    /\ tasks[i].pc = "await client.tui.showToast"
    /\ tasks' = Moved(i, "settled", tasks[i].locals)
    /\ UNCHANGED <<sessionMetrics, appLog, metricsFile, idleTurnCounts, toasts>>
    /\ UNCHANGED SingleCallVars

\* a plugin instance right after construction and the calls the host makes
InitConcurrent ==
  /\ config \in ConcurrentConfigs
  /\ input = Invocation("none", NotAString, NotAString, NotAString, NotAString, NotAString)
  /\ output = Null
  /\ pc = "done"
  /\ original = <<>>
  /\ result = <<>>
  /\ technique = <<>>
  /\ error = "none"
  /\ sessionMetrics = <<>>
  /\ appLog = <<>>
  /\ metricsFile = <<>>
  /\ fnArgs = <<>>
  /\ fnRet = Null
  /\ idleTurnCounts = <<>>
  /\ toasts = <<>>
  /\ idleEvents = <<>>
  /\ thrown = "none"
  /\ \E kinds \in [1..MaxTasks -> TaskKinds] :
       /\ \A k \in 1..(MaxTasks - 1) : KindOrder(kinds[k]) <= KindOrder(kinds[k + 1])
       /\ tasks = [k \in 1..MaxTasks |-> TaskOf(kinds[k], k)]

NextConcurrent ==
  \/ ToolCallStarts
  \/ SavingsLogResolves
  \/ MkdirResolves
  \/ AppendFileResolves
  \/ EventStarts
  \/ SummaryLogResolves
  \/ ShowToastResolves

SpecConcurrent == InitConcurrent /\ [][NextConcurrent]_vars

(***************************************************************************)
(* Properties of hook calls in flight at once                              *)
(***************************************************************************)
\* every call has settled
AllSettled == \A i \in 1..Len(tasks) : tasks[i].pc \in {"settled", "returned"}

\* the tool calls whose text the filters change and whose session is known
Recorded ==
  {i \in 1..Len(tasks) :
     /\ tasks[i].hook = "tool.execute.after"
     /\ stripAnsiFast(tasks[i].input.output.text) # tasks[i].input.output.text
     /\ ~resolveSessionID(tasks[i].input).isNull}

\* the places of a sequence of records that hold the record of tool call i
PlacesOf(records, i) ==
  {k \in 1..Len(records) :
     /\ records[k].sessionId = resolveSessionID(tasks[i].input).text
     /\ records[k].originalChars = Len(tasks[i].input.output.text)}

\* C29: when the hook calls made at once have all settled, every call whose
\* text changed has exactly one record in the session store and exactly one
\* line in the metrics log, the log has no other line, and the lines of one
\* session stand in the log in the order of that session's records in the store
C29_LogMirrorsStore ==
  AllSettled =>
    /\ \A i \in Recorded :
         /\ Cardinality(PlacesOf(sessionMetrics, i)) = 1
         /\ Cardinality(PlacesOf(metricsFile, i)) = 1
    /\ Len(sessionMetrics) = Cardinality(Recorded)
    /\ Len(metricsFile) = Cardinality(Recorded)
    /\ \A sessionID \in SessionIDs :
         SelectSeq(metricsFile, LAMBDA record : record.sessionId = sessionID)
           = SelectSeq(sessionMetrics, LAMBDA record : record.sessionId = sessionID)

\* the session.idle calls of a session that went past the idle-turn count
Counted(sessionID) ==
  {i \in 1..Len(tasks) :
     /\ tasks[i].hook = "event"
     /\ resolveSessionID(tasks[i].input.properties) = Some(sessionID)
     /\ tasks[i].pc \in {"await client.tui.showToast", "settled"}}

====
